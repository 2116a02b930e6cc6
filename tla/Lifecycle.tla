------------------------------ MODULE Lifecycle ------------------------------
(***************************************************************************)
(* What a consumer of the event stream is promised about one tracker: the  *)
(* status of every transaction, the moves it may make and the events that  *)
(* announce each move.  This is the status table of the README read as a   *)
(* state machine, with the tracker's own memory limits made explicit: a    *)
(* transaction may become "unknown" again when its ending is forgotten     *)
(* (a full memory, or a restart, which persists no endings).               *)
(***************************************************************************)
CONSTANT Hash

VARIABLES
    status,     \* what is known of each transaction
    announced   \* the events of the latest step: a set of <<hash, type>>

Status == {"unknown", "pending", "mined",
           "confirmed", "failed", "dropped", "replaced"}

\* <<from, the events announced, to>>
Discovery(s) ==
    {<<s, {"mined"}, "mined">>, <<s, {"confirmed"}, "confirmed">>,
     <<s, {"failed"}, "failed">>, <<s, {}, "failed">>}

Moves ==
       Discovery("unknown") \cup Discovery("pending") \cup Discovery("dropped")
  \cup Discovery("failed") \cup Discovery("replaced")
  \cup {<<s, {"pending"}, "pending">> : s \in {"unknown", "dropped"}}
  \cup {<<"pending", {"dropped"}, "dropped">>,
        <<"pending", {"replaced"}, "replaced">>,
        <<"pending", {"replaced"}, "unknown">>,
        <<"mined", {"mined"}, "mined">>,
        <<"mined", {"confirmed"}, "confirmed">>,
        <<"mined", {"failed"}, "failed">>,
        <<"mined", {"reorged"}, "pending">>,
        <<"mined", {"reorged", "mined"}, "mined">>,
        <<"mined", {"reorged", "confirmed"}, "confirmed">>,
        <<"mined", {"reorged", "failed"}, "failed">>}
  \cup {<<s, {}, "unknown">> : s \in {"confirmed", "failed", "dropped", "replaced"}}
  \cup {<<s, {}, s>> : s \in Status}

\* The types announced for h in the step.
TypesOf(evs, h) == {e[2] : e \in {x \in evs : x[1] = h}}

TypeOK == /\ status \in [Hash -> Status]
          /\ \A e \in announced : e[1] \in Hash

Init == status = [h \in Hash |-> "unknown"] /\ announced = {}

\* One step may move several transactions (a reorg, a consumed nonce).
Next == /\ status' \in [Hash -> Status]
        /\ \A h \in Hash : <<status[h], TypesOf(announced', h), status'[h]>> \in Moves
        /\ \A e \in announced' : e[1] \in Hash

vars == <<status, announced>>

Spec == Init /\ [][Next]_vars

=============================================================================
