------------------------------ MODULE MapTick ------------------------------
(***************************************************************************)
(* What the parallel map tick promises to the code it runs, without        *)
(* threads, queue or counter.  A tick visits every loaded map once; a map  *)
(* it visits is unloaded, skipped, or handed over and then updated exactly *)
(* once; when every update is over, each map left gets one DelayedUpdate.  *)
(* Maps appear and the server unloads them all only between ticks.         *)
(***************************************************************************)
CONSTANT Maps

VARIABLES
  loaded,    \* the maps there are
  phase,     \* "between" ticks, updating in "parallel", or "delayed" updates
  due,       \* the maps the phase has still to visit
  handed,    \* the maps handed over and not yet begun
  updating   \* the maps inside Map::Update

vars == <<loaded, phase, due, handed, updating>>

Init ==
  /\ loaded = {} /\ phase = "between"
  /\ due = {} /\ handed = {} /\ updating = {}

Create(m) ==
  /\ phase = "between" /\ m \notin loaded
  /\ loaded' = loaded \union {m}
  /\ UNCHANGED <<phase, due, handed, updating>>

Begin ==
  /\ phase = "between"
  /\ phase' = "parallel" /\ due' = loaded
  /\ UNCHANGED <<loaded, handed, updating>>

\* Only a map nobody updates and nobody is about to update is unloaded.
Unload(m) ==
  /\ phase = "parallel" /\ m \in due \ (handed \union updating)
  /\ loaded' = loaded \ {m} /\ due' = due \ {m}
  /\ UNCHANGED <<phase, handed, updating>>

Skip(m) ==
  /\ phase = "parallel" /\ m \in due
  /\ due' = due \ {m}
  /\ UNCHANGED <<loaded, phase, handed, updating>>

HandOver(m) ==
  /\ phase = "parallel" /\ m \in (due \intersect loaded) \ (handed \union updating)
  /\ due' = due \ {m} /\ handed' = handed \union {m}
  /\ UNCHANGED <<loaded, phase, updating>>

StartUpdate(m) ==
  /\ phase = "parallel" /\ m \in (handed \intersect loaded) \ updating
  /\ handed' = handed \ {m} /\ updating' = updating \union {m}
  /\ UNCHANGED <<loaded, phase, due>>

FinishUpdate(m) ==
  /\ phase = "parallel" /\ m \in updating
  /\ updating' = updating \ {m}
  /\ UNCHANGED <<loaded, phase, due, handed>>

BeginDelayed ==
  /\ phase = "parallel" /\ due = {} /\ handed = {} /\ updating = {}
  /\ phase' = "delayed" /\ due' = loaded
  /\ UNCHANGED <<loaded, handed, updating>>

DelayedUpdate(m) ==
  /\ phase = "delayed" /\ m \in due \intersect loaded
  /\ due' = due \ {m}
  /\ UNCHANGED <<loaded, phase, handed, updating>>

End ==
  /\ phase = "delayed" /\ due = {}
  /\ phase' = "between"
  /\ UNCHANGED <<loaded, due, handed, updating>>

UnloadAll ==
  /\ phase = "between"
  /\ loaded' = {}
  /\ UNCHANGED <<phase, due, handed, updating>>

Next ==
  \/ Begin \/ BeginDelayed \/ End \/ UnloadAll
  \/ \E m \in Maps : Create(m) \/ Unload(m) \/ Skip(m) \/ HandOver(m)
                     \/ StartUpdate(m) \/ FinishUpdate(m) \/ DelayedUpdate(m)

Spec == Init /\ [][Next]_vars
=============================================================================
