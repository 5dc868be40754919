----------------------------- MODULE MCFileApi -----------------------------
(***************************************************************************)
(* FileApi for TLC.                                                        *)
(***************************************************************************)
EXTENDS FileApi, TLC

CONSTANTS t1, t2, h1, h2, b1, b2, f1, f2, f3, d1, e1, e2

\* The batch b1 has two fragments with data and one without in front, and the last is
\* unaligned; b2 is read by name and has one fragment, as the network server does.
Shapes == (b1 :> <<Empty, f1, f2>>) @@ (b2 :> <<f3>>)

\* The names of the handles fall on two executors.
Slots == (h1 :> e1) @@ (h2 :> e2)

\* The batches meet the conditions of the theorems of FileApiProofs.
ASSUME BatchAssumption == OneFragment /\ EndsWithData
=============================================================================
