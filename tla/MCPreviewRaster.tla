---------------------------- MODULE MCPreviewRaster ----------------------------
(* Pictures eight dots wide and up to a band and a rest high; elements inside *)
(* the canvas, across its edges, on top of each other, empty, and a QR code   *)
(* too small for its modules.                                                 *)
EXTENDS PreviewRaster

Rect(x, y, w, h, black) ==
    [type |-> "rect", x |-> x, y |-> y, w |-> w, h |-> h, black |-> black]
Image(x, y, w, h, sourceW, sourceH, fit, invert) ==
    [type |-> "image", x |-> x, y |-> y, w |-> w, h |-> h,
     sourceW |-> sourceW, sourceH |-> sourceH, fit |-> fit, invert |-> invert]
Qr(x, y, w, h, size, modules) ==
    [type |-> "qr", x |-> x, y |-> y, w |-> w, h |-> h,
     size |-> size, modules |-> modules]

MCElements ==
    { Rect(0, 0, 8, 2, TRUE), Rect(-1, 1, 4, 9, TRUE), Rect(2, 0, 5, 7, FALSE),
      Rect(1, 4, 7, 3, TRUE), Rect(3, 3, 0, 2, TRUE),
      Image(0, 0, 8, 4, 3, 4, "contain", FALSE),
      Image(0, 2, 7, 4, 5, 2, "contain", TRUE),
      Image(4, 2, 6, 3, 1, 2, "cover", FALSE),
      Qr(1, 0, 7, 4, 2, {<<0, 0>>, <<1, 1>>}),
      Qr(5, 5, 1, 1, 2, {<<1, 0>>, <<0, 1>>}) }
MCContentHeights == {1, 3, 4, 6, 7}
MCPreviewRowBytes == {1, 2}
MCCoverages == 0..100
=============================================================================
