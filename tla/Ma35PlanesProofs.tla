-------------------------- MODULE Ma35PlanesProofs --------------------------
(***************************************************************************)
(* Proofs about Ma35Planes for any framebuffers, positions, hotspots and   *)
(* screen width.  The properties speak of planes whose commit is done; the *)
(* invariant says what holds of a plane before and after its hook in the   *)
(* commit has run.                                                         *)
(***************************************************************************)
EXTENDS Ma35Planes, TLAPS

Shown == st["cursor"].fb # None /\ OnScreen(st["cursor"].x)

(* com is a commit, and a plane's state is not touched while its hook is to *)
(* come, except for its hotspot.                                            *)
CommitOK ==
    /\ com = [todo |-> com.todo, old |-> com.old]
    /\ com.old = [p \in DOMAIN com.old |-> com.old[p]]
    /\ "cursor" \in com.todo => (st["cursor"].vis <=> Shown)

(* The cursor: once its hook has run, the registers follow its state; until *)
(* then a cursor that had no framebuffer is off.                            *)
CursorOK ==
    /\ "cursor" \notin com.todo /\ ~Shown => ~hw.en["cursor"]
    /\ "cursor" \notin com.todo /\ hw.en["cursor"] => hw.x = Clamp(st["cursor"].x)
    /\ "cursor" \in com.todo /\ com.old["cursor"].fb = None => ~hw.en["cursor"]

(* The primary plane: it scans out the old framebuffer until its hook has   *)
(* run, and the new one from then on.                                       *)
PrimaryOK ==
    hw.en["primary"] =>
        hw.addr["primary"] = IF "primary" \in com.todo THEN com.old["primary"].fb
                                                       ELSE st["primary"].fb

IInv == TypeOK /\ CommitOK /\ CursorOK /\ PrimaryOK

-----------------------------------------------------------------------------
(* The state of a plane that is off is a plane state. *)
LEMMA OffStateType == OffState \in States
<1>1. (CHOOSE x \in Coords : TRUE) \in Coords
  BY Ma35PlanesAssumption
<1> QED
  BY <1>1, Ma35PlanesAssumption DEF OffState, States

(* What the checks let through is a plane state, and the visibility of the  *)
(* cursor is right in it.                                                   *)
LEMMA CheckedType ==
    ASSUME NEW p, NEW fb \in FBs \cup {None}, NEW x \in Coords, NEW hot \in Hots
    PROVE  /\ Checked(p, fb, x, hot) \in States
           /\ LET c == Checked("cursor", fb, x, hot)
              IN  c.vis <=> c.fb # None /\ OnScreen(c.x)
<1>1. (fb # None /\ OnScreen(x)) \in BOOLEAN /\ (fb # None) \in BOOLEAN
  BY DEF OnScreen
<1> QED
  BY <1>1, OffStateType DEF Checked, States

(* Positions are integers, so a clamped one is a natural number. *)
LEMMA ClampType ==
    ASSUME NEW x \in Coords
    PROVE  Clamp(x) \in Nat
BY Ma35PlanesAssumption DEF Clamp

-----------------------------------------------------------------------------
LEMMA InitIInv == Init => IInv
<1> SUFFICES ASSUME Init PROVE IInv
  OBVIOUS
<1>1. /\ com.todo = {} /\ DOMAIN com.old = {}
      /\ com = [todo |-> com.todo, old |-> com.old]
      /\ com.old = [p \in DOMAIN com.old |-> com.old[p]]
  BY DEF Init, NoCommit
<1>2. TypeOK
  BY <1>1, OffStateType DEF Init, TypeOK, Planes
<1>3. \A p \in Planes : ~hw.en[p]
  BY DEF Init
<1> QED
  BY <1>1, <1>2, <1>3 DEF IInv, CommitOK, CursorOK, PrimaryOK, Planes

(* Submission *)
LEMMA CommitStep ==
    ASSUME IInv, NEW S \in SUBSET Planes, NEW new \in NewStates(S), Commit(new)
    PROVE  IInv'
<1>1. PICK fb \in [S -> FBs \cup {None}], x \in Coords, hot \in Hots :
           new = [p \in S |-> Checked(p, fb[p], x, hot)]
  BY DEF NewStates
<1>2. DOMAIN new = S /\ \A p \in S : new[p] \in States
  BY <1>1, CheckedType
<1>3. /\ com.todo = {} /\ DOMAIN com.old = {} /\ hw' = hw
      /\ com' = [todo |-> S, old |-> [p \in S |-> st[p]]]
      /\ st' = [p \in Planes |-> IF p \in S THEN new[p] ELSE st[p]]
  BY <1>2 DEF Commit, NoCommit
<1>4. TypeOK'
  BY <1>2, <1>3 DEF IInv, TypeOK
<1>5. CommitOK'
  <2>1. "cursor" \in S => (new["cursor"].vis <=> new["cursor"].fb # None /\ OnScreen(new["cursor"].x))
    BY <1>1, CheckedType
  <2> QED
    BY <1>3, <2>1 DEF CommitOK, Shown, Planes
<1>6. CursorOK'
  BY <1>3 DEF IInv, CursorOK, Shown, Planes
<1>7. PrimaryOK'
  BY <1>3 DEF IInv, PrimaryOK, Planes
<1> QED
  BY <1>4, <1>5, <1>6, <1>7 DEF IInv

(* The hooks of primary and overlay *)
LEMMA PlaneStep ==
    ASSUME IInv, NEW p \in Planes, PlaneDisable(p) \/ PlaneUpdate(p)
    PROVE  IInv'
<1>1. /\ p \in com.todo /\ p # "cursor" /\ st' = st
      /\ com' = [com EXCEPT !.todo = @ \ {p}]
  BY DEF PlaneDisable, PlaneUpdate, Turn, Written
<1>2. /\ com' = [todo |-> com.todo \ {p}, old |-> com.old]
      /\ com'.todo = com.todo \ {p} /\ com'.old = com.old
  BY <1>1 DEF IInv, CommitOK
<1>3. /\ hw' \in [en: [Planes -> BOOLEAN], addr: [Planes -> FBs \cup {None}], x: Nat]
      /\ hw'.en["cursor"] = hw.en["cursor"] /\ hw'.x = hw.x
      /\ p # "primary" /\ hw'.en["primary"] =>
            hw.en["primary"] /\ hw'.addr["primary"] = hw.addr["primary"]
      /\ p = "primary" /\ hw'.en["primary"] =>
            \/ hw'.addr["primary"] = st["primary"].fb
            \/ /\ st["primary"].fb = None /\ com.old["primary"].fb = None
               /\ hw' = hw
  <2>0. /\ hw \in [en: [Planes -> BOOLEAN], addr: [Planes -> FBs \cup {None}], x: Nat]
        /\ st[p].fb \in FBs \cup {None}
    BY DEF IInv, TypeOK, States
  <2>1. CASE PlaneDisable(p)
    BY <1>1, <2>0, <2>1 DEF PlaneDisable, Planes
  <2>2. CASE PlaneUpdate(p)
    BY <1>1, <2>0, <2>2 DEF PlaneUpdate, Disabling, Planes
  <2> QED
    BY <2>1, <2>2
<1>4. TypeOK'
  BY <1>1, <1>2, <1>3 DEF IInv, TypeOK
<1>5. CommitOK' /\ CursorOK'
  BY <1>1, <1>2, <1>3 DEF IInv, CommitOK, CursorOK, Shown
<1>6. PrimaryOK'
  BY <1>1, <1>2, <1>3 DEF IInv, PrimaryOK
<1> QED
  BY <1>4, <1>5, <1>6 DEF IInv

(* The hooks of the cursor in a commit *)
LEMMA CursorStep ==
    ASSUME IInv, CursorDisable \/ CursorUpdate
    PROVE  IInv'
<1>1. /\ "cursor" \in com.todo /\ st' = st
      /\ com' = [com EXCEPT !.todo = @ \ {"cursor"}]
  BY DEF CursorDisable, CursorUpdate, Turn, Written
<1>2. /\ com' = [todo |-> com.todo \ {"cursor"}, old |-> com.old]
      /\ com'.todo = com.todo \ {"cursor"} /\ com'.old = com.old
  BY <1>1 DEF IInv, CommitOK
<1>3. /\ st["cursor"] \in States /\ com.old["cursor"] \in States
      /\ hw \in [en: [Planes -> BOOLEAN], addr: [Planes -> FBs \cup {None}], x: Nat]
      /\ st["cursor"].vis <=> Shown
  BY <1>1 DEF IInv, TypeOK, CommitOK, Planes
<1>4. /\ hw' \in [en: [Planes -> BOOLEAN], addr: [Planes -> FBs \cup {None}], x: Nat]
      /\ hw'.en["primary"] = hw.en["primary"] /\ hw'.addr["primary"] = hw.addr["primary"]
      /\ ~Shown => ~hw'.en["cursor"]
      /\ hw'.en["cursor"] => hw'.x = Clamp(st["cursor"].x)
  <2>1. CASE CursorDisable
    BY <1>3, <2>1 DEF CursorDisable, Planes
  <2>2. CASE CursorUpdate /\ st["cursor"].fb = None
    <3>1. hw' = hw /\ com.old["cursor"].fb = None
      BY <2>2 DEF CursorUpdate, Disabling
    <3> QED
      BY <1>1, <1>3, <3>1 DEF IInv, CursorOK
  <2>3. CASE CursorUpdate /\ st["cursor"].fb # None
    <3>1. /\ st["cursor"].vis \in BOOLEAN /\ st["cursor"].x \in Coords
          /\ st["cursor"].fb \in FBs \cup {None} /\ Clamp(st["cursor"].x) \in Nat
      BY <1>3, ClampType DEF States
    <3>2. CASE st["cursor"].vis
      BY <1>3, <2>3, <3>1, <3>2 DEF CursorUpdate, WriteCursor, Planes
    <3>3. CASE ~st["cursor"].vis
      BY <1>3, <2>3, <3>1, <3>3 DEF CursorUpdate, WriteCursor, Planes
    <3> QED
      BY <3>2, <3>3
  <2> QED
    BY <2>1, <2>2, <2>3
<1>5. TypeOK'
  BY <1>1, <1>2, <1>4 DEF IInv, TypeOK
<1>6. CommitOK' /\ CursorOK' /\ PrimaryOK'
  BY <1>1, <1>2, <1>4 DEF IInv, CommitOK, CursorOK, PrimaryOK, Shown
<1> QED
  BY <1>5, <1>6 DEF IInv

LEMMA HwDoneStep ==
    ASSUME IInv, CommitHwDone
    PROVE  IInv'
<1>1. com.todo = {} /\ com' = NoCommit /\ st' = st /\ hw' = hw
  BY DEF CommitHwDone
<1>2. /\ com'.todo = {} /\ DOMAIN com'.old = {}
      /\ com' = [todo |-> com'.todo, old |-> com'.old]
      /\ com'.old = [p \in DOMAIN com'.old |-> com'.old[p]]
  BY <1>1 DEF NoCommit
<1> QED
  BY <1>1, <1>2 DEF IInv, TypeOK, CommitOK, CursorOK, PrimaryOK, Shown

(* Updates in place *)
LEMMA AsyncStep ==
    ASSUME IInv, NEW fb \in FBs, NEW x \in Coords, AsyncUpdate(fb, x)
    PROVE  IInv'
<1>1. /\ st["cursor"].fb # None /\ "cursor" \notin com.todo /\ com' = com
      /\ hw' = WriteCursor(OnScreen(x), x, st["cursor"].fb, fb # st["cursor"].fb, FALSE)
      /\ st' = [st EXCEPT !["cursor"].x = x]
  BY DEF AsyncUpdate, AsyncCheck, HwDone, InFlight, ma35_cursor_plane_atomic_async_update,
         IInv, TypeOK
<1>2. /\ st["cursor"].fb \in FBs \cup {None} /\ Clamp(x) \in Nat
      /\ hw \in [en: [Planes -> BOOLEAN], addr: [Planes -> FBs \cup {None}], x: Nat]
  BY ClampType DEF IInv, TypeOK, States, Planes
<1>3. /\ hw' \in [en: [Planes -> BOOLEAN], addr: [Planes -> FBs \cup {None}], x: Nat]
      /\ hw'.en["primary"] = hw.en["primary"] /\ hw'.addr["primary"] = hw.addr["primary"]
      /\ OnScreen(x) => hw'.x = Clamp(x)
      /\ ~OnScreen(x) => ~hw'.en["cursor"]
  <2>1. CASE OnScreen(x)
    BY <1>1, <1>2, <2>1 DEF WriteCursor, Planes
  <2>2. CASE ~OnScreen(x)
    BY <1>1, <1>2, <2>2 DEF WriteCursor, Planes
  <2> QED
    BY <2>1, <2>2
<1>4. /\ st' \in [Planes -> States]
      /\ st'["primary"] = st["primary"] /\ st'["cursor"].fb = st["cursor"].fb
      /\ st'["cursor"].x = x
  BY <1>1 DEF IInv, TypeOK, States, Planes
<1>5. TypeOK' /\ CommitOK'
  BY <1>1, <1>3, <1>4 DEF IInv, TypeOK, CommitOK
<1>6. CursorOK' /\ PrimaryOK'
  BY <1>1, <1>3, <1>4 DEF IInv, CursorOK, PrimaryOK, Shown
<1> QED
  BY <1>5, <1>6 DEF IInv

LEMMA LegacyStep ==
    ASSUME IInv, NEW hot \in Hots, LegacyCursorBo(hot)
    PROVE  IInv'
<1>1. st' = [st EXCEPT !["cursor"].hot = hot] /\ com' = com /\ hw' = hw
  BY DEF LegacyCursorBo
<1>2. /\ st' \in [Planes -> States] /\ st'["primary"] = st["primary"]
      /\ st'["cursor"].fb = st["cursor"].fb /\ st'["cursor"].x = st["cursor"].x
      /\ st'["cursor"].vis = st["cursor"].vis
  BY <1>1 DEF IInv, TypeOK, States, Planes
<1> QED
  BY <1>1, <1>2 DEF IInv, TypeOK, CommitOK, CursorOK, PrimaryOK, Shown

LEMMA NextIInv == IInv /\ [Next]_vars => IInv'
<1> SUFFICES ASSUME IInv, [Next]_vars PROVE IInv'
  OBVIOUS
<1>1. CASE UNCHANGED vars
  BY <1>1 DEF vars, IInv, TypeOK, CommitOK, CursorOK, PrimaryOK, Shown
<1> QED
  BY <1>1, CommitStep, PlaneStep, CursorStep, HwDoneStep, AsyncStep, LegacyStep
     DEF Next, CommitTail

-----------------------------------------------------------------------------
(* The inductive invariant holds throughout. *)
THEOREM PlanesInvariance == Spec => []IInv
BY InitIInv, NextIInv, PTL DEF Spec

(* Plane states, commits and registers keep their types. *)
THEOREM PlanesTypeCorrect == Spec => []TypeOK
<1>1. IInv => TypeOK
  BY DEF IInv
<1> QED
  BY <1>1, PlanesInvariance, PTL

(* A cursor that a commit or an update in place has detached or moved off   *)
(* the screen is off, however the two paths alternate.                      *)
THEOREM HiddenIsOff == Spec => []CursorHidden
<1>1. IInv => CursorHidden
  BY DEF IInv, TypeOK, CursorOK, Shown, CursorHidden, HwDone, InFlight
<1> QED
  BY <1>1, PlanesInvariance, PTL

(* A cursor that is on is where the last update of either path put it.      *)
THEOREM ShownInPlace == Spec => []CursorPlaced
<1>1. IInv => CursorPlaced
  BY DEF IInv, TypeOK, CursorOK, CursorPlaced, HwDone, InFlight
<1> QED
  BY <1>1, PlanesInvariance, PTL

(* The primary plane never scans out a framebuffer that no plane state      *)
(* holds any more, though the hook of the overlay clears its enable bit.    *)
THEOREM PrimaryFramebufferHeld == Spec => []PrimaryHeld
<1>1. IInv => PrimaryHeld
  BY DEF IInv, TypeOK, PrimaryOK, PrimaryHeld, Held, InFlight
<1> QED
  BY <1>1, PlanesInvariance, PTL
=============================================================================
