---------------------------- MODULE SettingsStore ----------------------------
(***************************************************************************)
(* What the preferences promise to the web clients: one value per setting, *)
(* the same for every client as long as the daemon runs.  Beside it, what  *)
(* the next start will find: every setting as it reads once it was kept,   *)
(* or, where the keeping of a change failed, what was there before or the  *)
(* factory's; there is nothing in between.                                 *)
(***************************************************************************)
CONSTANTS Setting, Value, Client, Factory, Away,
          Rewritten     \* a value as it reads once it was kept

VARIABLES settings, running,
          kept,      \* what the next start finds
          shown      \* shown[c]: what client c shows, or Away
vars == <<settings, kept, running, shown>>

Nobody == [c \in Client |-> Away]
With(s, v) == [settings EXCEPT ![s] = v]
AsKept(store) == [s \in Setting |-> Rewritten[store[s]]]
Told == [c \in Client |-> IF shown[c] = Away THEN Away ELSE settings']

Init == /\ settings \in [Setting -> Value] /\ kept = settings
        /\ running = FALSE /\ shown = Nobody

Start == ~running /\ running' = TRUE /\ UNCHANGED <<settings, kept, shown>>

Subscribe(c) ==
    /\ running
    /\ shown' = [shown EXCEPT ![c] = settings]
    /\ UNCHANGED <<settings, kept, running>>
Leave(c) ==
    /\ shown' = [shown EXCEPT ![c] = Away]
    /\ UNCHANGED <<settings, kept, running>>

Keep(store) == kept' \in {AsKept(store), kept, Factory}

Set(s, v) ==
    /\ running
    /\ settings' = With(s, v)
    /\ Keep(settings')
    /\ shown' = Told
    /\ UNCHANGED running

\* The daemon ends, at rest or in the middle of a change.
End(s, v) ==
    /\ running /\ running' = FALSE
    /\ Keep(With(s, v)) /\ settings' = kept'
    /\ shown' = Nobody

\* Somebody edits the file while the daemon is down.
Edit(s, v) ==
    /\ ~running
    /\ settings' = With(s, v) /\ kept' = settings'
    /\ UNCHANGED <<running, shown>>

Next == \/ Start
        \/ \E c \in Client: Subscribe(c) \/ Leave(c)
        \/ \E s \in Setting, v \in Value: Set(s, v) \/ End(s, v) \/ Edit(s, v)
Spec == Init /\ [][Next]_vars
=============================================================================
