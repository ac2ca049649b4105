----------------------------- MODULE FtDownload -----------------------------
(***************************************************************************)
(* What a file download promises, byte by byte.  A byte is asked for once  *)
(* at a time; any data may arrive at any time and is written, but a byte   *)
(* counts as received only if it was written after it was asked for; a     *)
(* chunk is verified or rejected as a whole, and only when all of it is    *)
(* received; what is given up or rejected is asked for again.              *)
(* FtFileCreator implements it: there the bytes are spread over the feeds, *)
(* the slices and the split pieces of several sources.                     *)
(***************************************************************************)
EXTENDS Integers

CONSTANTS
  Bytes,            \* offsets of the file
  Parts,            \* the chunks, each a set of offsets
  Datas             \* what a source may send for a byte

VARIABLES
  life,             \* how far each byte is
  file,             \* what the partial file holds at each offset
  kept              \* the chunks verified when the program last saved its state

dlVars == <<life, file, kept>>

Life == {"missing", "requested", "arrived", "received", "verified"}

Are(S, s) == \A b \in S : life[b] = s
Become(S, s) == life' = [b \in Bytes |-> IF b \in S THEN s ELSE life[b]]

DlInit ==
  /\ life = [b \in Bytes |-> "missing"]
  /\ file = [b \in Bytes |-> "hole"]
  /\ kept = {}

\* A run of missing bytes of one chunk is asked for.
Request ==
  /\ \E P \in Parts : \E i, j \in P :
       Are(i .. j, "missing") /\ Become(i .. j, "requested")
  /\ UNCHANGED <<file, kept>>

\* With data for the bytes of S, these are there since they were asked for.
There(S) == {b \in Bytes : life[b] = "arrived" \/ (b \in S /\ life[b] = "requested")}

\* A packet is a run of bytes.
Written(S, d) == file' = [b \in Bytes |-> IF b \in S THEN d ELSE file[b]]

\* Data arrives and is written; of the bytes that are there, some count as received.
Deliver ==
  /\ \E i, j \in Bytes, d \in Datas :
       /\ Written(i .. j, d)
       /\ life' \in [Bytes -> Life]
       /\ \A b \in There(i .. j) : life'[b] \in {"arrived", "received"}
       /\ \A b \in Bytes \ There(i .. j) : life'[b] = life[b]
  /\ UNCHANGED kept

\* The same of the last bytes of a file of one chunk, which is not checked by
\* chunks: its hash is checked when it is complete.
DeliverAll ==
  /\ \E i, j \in Bytes, d \in Datas :
       /\ Parts = {Bytes}
       /\ Written(i .. j, d)
       /\ \A b \in Bytes : life[b] = "received" \/ b \in There(i .. j)
       /\ Become(Bytes, "verified")
  /\ UNCHANGED kept

\* A chunk is checked.
Check ==
  /\ \E P \in Parts, s \in {"verified", "missing"} : Are(P, "received") /\ Become(P, s)
  /\ UNCHANGED <<file, kept>>

\* Chunks that make no progress are given up, with the part received.
GiveUp ==
  /\ \E Q \in (SUBSET Parts) \ {{}} :
       /\ \A P \in Q : \E b \in P : life[b] \in {"missing", "requested", "arrived"}
       /\ Become(UNION Q, "missing")
  /\ UNCHANGED <<file, kept>>

\* A complete file is checked again.
Recheck ==
  /\ Are(Bytes, "verified")
  /\ Become(Bytes, "received")
  /\ UNCHANGED <<file, kept>>

Save ==
  /\ kept' = {P \in Parts : Are(P, "verified")}
  /\ UNCHANGED <<life, file>>

\* The program starts again: what was not saved as verified is missing.
Resume ==
  /\ life' = [b \in Bytes |-> IF b \in UNION kept THEN "verified" ELSE "missing"]
  /\ UNCHANGED <<file, kept>>

DlNext == Request \/ Deliver \/ DeliverAll \/ Check \/ GiveUp \/ Recheck \/ Save \/ Resume

DlSpec == DlInit /\ [][DlNext]_dlVars

=============================================================================
