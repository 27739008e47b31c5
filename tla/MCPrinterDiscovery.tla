------------------------- MODULE MCPrinterDiscovery -------------------------
(***************************************************************************)
(* Two profiles with one service, as two models of a printer family have.   *)
(* d1 is the first profile's printer; d2 is known by its name only, gives   *)
(* its model together with a firmware that is known, and has a firmware     *)
(* that is not.                                                             *)
(***************************************************************************)
EXTENDS PrinterDiscovery, TLC

CONSTANTS d1, d2, p1, p2, ff00, model1, model2, fw1, model1fw1, fw9, status

MCCatalogue == <<p1, p2>>
MCServiceOf == [p \in {p1, p2} |-> ff00]
MCModelOf == (p1 :> model1) @@ (p2 :> model2)
MCFirmwareOf == (p1 :> <<fw1>>) @@ (p2 :> <<fw1>>)
MCAdvertised == (d1 :> {ff00}) @@ (d2 :> {})
MCNamed == (d1 :> {}) @@ (d2 :> {p1})
MCGatt == [d \in {d1, d2} |-> {ff00}]
MCWritable == [d \in {d1, d2} |-> TRUE]
MCNotifyCount == (d1 :> 2) @@ (d2 :> 1)
MCModelReply == (d1 :> model1) @@ (d2 :> model1fw1)
MCFirmwareReply == (d1 :> fw1) @@ (d2 :> fw9)
MCWithin ==
    {<<t, t>> : t \in {model1, model2, fw1, model1fw1, fw9, status}}
      \cup {<<model1, model1fw1>>, <<fw1, model1fw1>>}
=============================================================================
