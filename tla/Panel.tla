-------------------------------- MODULE Panel --------------------------------
(***************************************************************************)
(* The organisers' panel as far as the engine's dials go: a form that      *)
(* copies the parameters once, when the dashboard first shows them, and an *)
(* API that merges what it is sent into what it read.  The other buttons   *)
(* of the panel are Market's and Checkout's requests.  A poll of the       *)
(* dashboard is one step: what it answers is not older than a poll that    *)
(* was never repeated.                                                     *)
(***************************************************************************)
EXTENDS Integers

CONSTANTS
  Organiser, Dial, Level,
  DEFAULT_ENGINE_PARAMS,
  Unset,     \* no form, or nothing in the cache
  MaxSaves   \* bound: saves, named 1..MaxSaves

ASSUME PanelAssumption == /\ DEFAULT_ENGINE_PARAMS \in [Dial -> Level]
                          /\ Unset \notin [Dial -> Level]
                          /\ MaxSaves \in Nat

VARIABLES
  params,     \* of the event
  dashboard,  \* per organiser, the cached parameters
  draft,      \* per organiser, the dials of the form
  saving,     \* organisers whose button says it is saving
  saves,      \* so far
  updates,    \* in flight: [id, patch, base], base being Unset until it is read
  submitted   \* history: the forms saved, and the parameters of the beginning

panelVars == <<params, dashboard, draft, saving, saves, updates, submitted>>

PanelTypeOK ==
  /\ params \in [Dial -> Level]
  /\ dashboard \in [Organiser -> [Dial -> Level] \cup {Unset}]
  /\ draft \in [Organiser -> [Dial -> Level] \cup {Unset}]
  /\ saving \subseteq Organiser /\ saves \in 0..MaxSaves
  /\ \A u \in updates : u.id \in 1..saves /\ DOMAIN u.patch \subseteq Dial

PanelInit ==
  /\ params = DEFAULT_ENGINE_PARAMS
  /\ dashboard = [o \in Organiser |-> Unset] /\ draft = [o \in Organiser |-> Unset]
  /\ saving = {} /\ saves = 0 /\ updates = {} /\ submitted = {params}

Mounted(o, shown) == IF draft[o] = Unset THEN shown ELSE draft[o]

\* Every five seconds, after a save, and on focus.
PollDashboard(o) ==
  /\ dashboard' = [dashboard EXCEPT ![o] = params]
  /\ draft' = [draft EXCEPT ![o] = Mounted(o, params)]
  /\ UNCHANGED <<params, saving, saves, updates, submitted>>

\* Back on the panel, over what the cache still holds.
OpenPanel(o) ==
  /\ draft[o] = Unset /\ dashboard[o] # Unset
  /\ draft' = [draft EXCEPT ![o] = dashboard[o]]
  /\ UNCHANGED <<params, dashboard, saving, saves, updates, submitted>>

LeavePanel(o) ==
  /\ draft[o] # Unset /\ draft' = [draft EXCEPT ![o] = Unset]
  /\ saving' = saving \ {o}
  /\ UNCHANGED <<params, dashboard, saves, updates, submitted>>

TurnDial(o, dial, level) ==
  /\ draft[o] # Unset /\ draft[o][dial] # level
  /\ draft' = [draft EXCEPT ![o][dial] = level]
  /\ UNCHANGED <<params, dashboard, saving, saves, updates, submitted>>

\* Fault: the API takes a partial patch, so only what was turned is sent.
patchOf_Turned(o) ==
  [dial \in {d \in Dial : draft[o][d] # dashboard[o][d]} |-> draft[o][dial]]

patchOf(o) == draft[o]

Save(o) ==
  /\ draft[o] # Unset /\ o \notin saving
  /\ saves < MaxSaves /\ saves' = saves + 1
  /\ saving' = saving \cup {o}
  /\ updates' = updates \cup {[id |-> saves', patch |-> patchOf(o), base |-> Unset]}
  /\ submitted' = submitted \cup {draft[o]}
  /\ UNCHANGED <<params, dashboard, draft>>

\* updateEngineParams: what it read is written back under the patch.
ReadEngineParams(u) ==
  /\ u.base = Unset
  /\ updates' = (updates \ {u}) \cup {[u EXCEPT !.base = params]}
  /\ UNCHANGED <<params, dashboard, draft, saving, saves, submitted>>

Merged(base, patch) == [d \in Dial |-> IF d \in DOMAIN patch THEN patch[d] ELSE base[d]]

WriteEngineParams(u) ==
  /\ u.base # Unset
  /\ params' = Merged(u.base, u.patch)
  /\ updates' = updates \ {u}
  /\ UNCHANGED <<dashboard, draft, saving, saves, submitted>>

\* The request or the process is lost.
UpdateLost(u) ==
  /\ updates' = updates \ {u}
  /\ UNCHANGED <<params, dashboard, draft, saving, saves, submitted>>

\* Answered, refused, or given up while the server still works on it.
SaveAnswered(o) ==
  /\ o \in saving /\ saving' = saving \ {o}
  /\ UNCHANGED <<params, dashboard, draft, saves, updates, submitted>>

PanelNext ==
  \/ \E o \in Organiser : PollDashboard(o) \/ OpenPanel(o) \/ LeavePanel(o) \/ Save(o)
                          \/ SaveAnswered(o)
  \/ \E o \in Organiser, dial \in Dial, level \in Level : TurnDial(o, dial, level)
  \/ \E u \in updates : ReadEngineParams(u) \/ WriteEngineParams(u) \/ UpdateLost(u)

-----------------------------------------------------------------------------
\* The dials are judged together (engine-params.tsx): however two organisers'
\* saves overlap, what the engine runs on is what one form showed as a whole.
OneFormsParams == params \in submitted

=============================================================================
