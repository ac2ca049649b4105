----------------------------- MODULE AutoUpdate -----------------------------
(***************************************************************************)
(* What the web interface promises to a widget that shows a resource of    *)
(* the server: the widget always knows whether what it shows is current,   *)
(* and if it is not, it is brought up to date.  webui/README.md, steps 1   *)
(* to 3, and api/README.md ("automatic state change propagation").  The    *)
(* token protocol of RsApi implements it.                                  *)
(***************************************************************************)
EXTENDS Integers

CONSTANT Widgets        \* the widgets that show the resource

VARIABLES
  version,              \* how often the resource has changed
  status,               \* what each widget knows about what it shows
  shown                 \* the version each widget shows

auVars == <<version, status, shown>>

Nothing == -1           \* what a widget shows before the first answer

Status == {"absent", "waiting", "current", "outdated"}

AuInit ==
  /\ version = 0
  /\ status = [w \in Widgets |-> "absent"]
  /\ shown = [w \in Widgets |-> Nothing]

\* The resource changes: no widget is current any more, and each knows it.
Change ==
  /\ version' = version + 1
  /\ status' = [w \in Widgets |->
                  IF status[w] = "current" THEN "outdated" ELSE status[w]]
  /\ UNCHANGED shown

Appear(w) ==
  /\ status[w] = "absent"
  /\ status' = [status EXCEPT ![w] = "waiting"]
  /\ UNCHANGED <<version, shown>>

Disappear(w) ==
  /\ status' = [status EXCEPT ![w] = "absent"]
  /\ shown' = [shown EXCEPT ![w] = Nothing]
  /\ UNCHANGED version

\* An answer is shown.  It may be an old one, but then the widget knows.
Show(w) ==
  /\ status[w] # "absent"
  /\ \E v \in 0 .. version, s \in {"current", "outdated"} :
       /\ s = "current" => v = version
       /\ shown' = [shown EXCEPT ![w] = v]
       /\ status' = [status EXCEPT ![w] = s]
  /\ UNCHANGED version

AuNext ==
  \/ Change
  \/ \E w \in Widgets : Appear(w) \/ Disappear(w) \/ Show(w)

\* Whoever knows that he is outdated is brought up to date, or leaves.
Refreshed ==
  \A w \in Widgets : status[w] = "outdated" ~> status[w] \in {"current", "absent"}

AuSpec == AuInit /\ [][AuNext]_auVars

=============================================================================
