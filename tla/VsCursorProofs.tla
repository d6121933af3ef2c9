--------------------------- MODULE VsCursorProofs ---------------------------
(***************************************************************************)
(* Proofs about VsCursor for any framebuffers, sizes, positions and screen *)
(* size that the chip allows.                                              *)
(***************************************************************************)
EXTENDS VsCursor, TLAPS

PCs == {"idle", "none", "disable", "update", "enable"}
RegType ==
    [fmt: {"off", "ARGB8888"}, size: HwSizes, addr: FBs \cup {None}, start: [Axes -> Nat],
     off: [Axes -> 0 .. 2^OffWidth - 1], loc: [Axes -> 0 .. 2^LocWidth - 1]]

(* The committed state passed the check, and the hook to come is the right  *)
(* one for it.                                                              *)
CommitOK ==
    /\ st.vis => /\ st.fb # None /\ st.size \in HwSizes /\ st.size = Pitch[st.fb]
                 /\ \A a \in Axes : st.pos[a] < Screen
    /\ com.pc = "idle" => com = Idle
    /\ com.pc \in {"update", "enable"} => st.fb # None
    /\ com.pc \in {"none", "disable"} => st.fb = None

(* Once atomic_update has run, the registers of a visible cursor are those  *)
(* of its state, before atomic_enable and after it.                         *)
WrittenOK ==
    com.pc \in {"idle", "enable"} /\ st.vis =>
        /\ regs.addr = st.fb /\ regs.size = st.size
        /\ \A a \in Axes : st.pos[a] >= 0 =>
             regs.loc[a] = st.pos[a] /\ regs.start[a] = 0 /\ regs.off[a] = 0

IInv == TypeOK /\ CommitOK /\ WrittenOK /\ DetachedOff

-----------------------------------------------------------------------------
(* Whatever coordinate, the location field gets a value of its width; one   *)
(* on the screen is not cut.                                                *)
LEMMA LocationContract ==
    ASSUME NEW c \in Int, NEW a \in Axes
    PROVE  /\ Location(c, a) \in 0 .. 2^LocWidth - 1
           /\ c >= 0 /\ c < Screen => Location(c, a) = c
<1>1. 2^LocWidth = 32768 /\ Screen <= 8192 /\ Screen \in Int
  BY VsCursorAssumption DEF LocWidth
<1>2. CASE a = "x"
  <2>1. 2^LocShift[a] = 1
    BY <1>2 DEF LocShift
  <2>2. Location(c, a) = IF c >= 0 THEN ((c * 1) \div 1) % 32768 ELSE 0
    BY <1>1, <2>1 DEF Location, Field
  <2> QED
    BY <1>1, <2>2
<1>3. CASE a = "y"
  <2>1. 2^LocShift[a] = 65536
    BY <1>3 DEF LocShift
  <2>2. Location(c, a) = IF c >= 0 THEN ((c * 65536) \div 65536) % 32768 ELSE 0
    BY <1>1, <2>1 DEF Location, Field
  <2> QED
    BY <1>1, <2>2
<1> QED
  BY <1>2, <1>3 DEF Axes

(* The offset field gets a value of its width, too, and 0 if there is no    *)
(* need of one.                                                             *)
LEMMA OffsetContract ==
    ASSUME NEW c \in Int, NEW a \in Axes
    PROVE  /\ Offset(c, a) \in 0 .. 2^OffWidth - 1
           /\ c >= 0 => Offset(c, a) = 0
<1>1. 2^OffWidth = 32
  BY DEF OffWidth
<1>2. CASE a = "x"
  <2>1. 2^OffShift[a] = 65536
    BY <1>2 DEF OffShift
  <2>2. Offset(c, a) = IF c >= 0 THEN 0 ELSE ((-c) \div 65536) % 32
    BY <1>1, <2>1 DEF Offset, Field
  <2> QED
    BY <1>1, <2>2
<1>3. CASE a = "y"
  <2>1. 2^OffShift[a] = 256
    BY <1>3 DEF OffShift
  <2>2. Offset(c, a) = IF c >= 0 THEN 0 ELSE ((-c) \div 256) % 32
    BY <1>1, <2>1 DEF Offset, Field
  <2> QED
    BY <1>1, <2>2
<1> QED
  BY <1>2, <1>3 DEF Axes

(* A state that passes vs_cursor_plane_atomic_check. *)
LEMMA CheckContract ==
    ASSUME NEW s \in PlaneStates, AtomicCheck(s), s.vis
    PROVE  /\ s.fb # None /\ s.size \in HwSizes /\ s.size = Pitch[s.fb]
           /\ \A a \in Axes : s.pos[a] < Screen
<1>1. Visible(s)
  BY DEF AtomicCheck
<1> QED
  BY <1>1 DEF AtomicCheck, Visible

-----------------------------------------------------------------------------
LEMMA InitIInv == Init => IInv
<1> SUFFICES ASSUME Init PROVE IInv
  OBVIOUS
<1>1. st \in PlaneStates /\ ~st.vis
  <2>1. (CHOOSE s \in Sizes : TRUE) \in Sizes
    BY VsCursorAssumption
  <2> QED
    BY <2>1, VsCursorAssumption DEF Init, PlaneStates
<1>2. regs \in RegType /\ regs.fmt = "off"
  <2>1. 0 \in 0 .. 2^OffWidth - 1 /\ 0 \in 0 .. 2^LocWidth - 1
    BY DEF OffWidth, LocWidth
  <2> QED
    BY <2>1 DEF Init, RegType, HwSizes
<1>3. com = Idle /\ com.pc = "idle" /\ com.old = None
  BY DEF Init, Idle
<1>4. TypeOK
  BY <1>1, <1>2, <1>3 DEF TypeOK, RegType, Idle
<1> QED
  BY <1>1, <1>2, <1>3, <1>4 DEF IInv, CommitOK, WrittenOK, DetachedOff

LEMMA CommitStep ==
    ASSUME IInv, NEW new \in PlaneStates, Commit(new)
    PROVE  IInv'
<1>1. com = Idle /\ com.pc = "idle" /\ st' = new /\ regs' = regs /\ AtomicCheck(new)
  BY DEF Commit, Idle
<1>2. /\ com'.pc = IF new.fb # None THEN "update"
                   ELSE IF st.fb # None THEN "disable" ELSE "none"
      /\ com'.old = st.fb
      /\ com' \in [pc: PCs, old: FBs \cup {None}]
  BY DEF Commit, IInv, TypeOK, PlaneStates, PCs
<1>3. TypeOK'
  BY <1>1, <1>2 DEF IInv, TypeOK, PCs
<1>4. CommitOK'
  BY <1>1, <1>2, CheckContract DEF CommitOK
<1>5. WrittenOK' /\ DetachedOff'
  BY <1>1, <1>2 DEF IInv, WrittenOK, DetachedOff, Idle
<1> QED
  BY <1>3, <1>4, <1>5 DEF IInv

LEMMA UpdateStep ==
    ASSUME IInv, AtomicUpdate
    PROVE  IInv'
<1>1. com.pc = "update" /\ st' = st /\ st.fb # None
  BY DEF AtomicUpdate, IInv, CommitOK
<1>2. /\ st \in PlaneStates /\ regs \in RegType
      /\ com \in [pc: PCs, old: FBs \cup {None}]
      /\ \A a \in Axes : st.pos[a] \in Int
  <2>1. st \in PlaneStates /\ regs \in RegType /\ com \in [pc: PCs, old: FBs \cup {None}]
    BY DEF IInv, TypeOK, RegType, PCs
  <2>2. \A a \in Axes : st.pos[a] \in Int
    <3>1. st.pos \in [Axes -> Coords]
      BY <2>1 DEF PlaneStates
    <3>2. Coords \subseteq Int
      BY VsCursorAssumption
    <3> QED
      BY <3>1, <3>2
  <2> QED
    BY <2>1, <2>2
<1>3. /\ com' \in [pc: PCs, old: FBs \cup {None}]
      /\ com.old = None => com'.pc = "enable" /\ com'.old = None
      /\ com.old # None => com' = Idle /\ com'.pc = "idle"
  BY <1>2 DEF AtomicUpdate, Idle, PCs
<1>4. /\ regs' \in RegType
      /\ regs'.fmt = regs.fmt \/ regs'.fmt = "off"
      /\ st.vis => /\ regs'.addr = st.fb /\ regs'.size = st.size
                   /\ \A a \in Axes : st.pos[a] >= 0 =>
                        regs'.loc[a] = st.pos[a] /\ regs'.start[a] = 0 /\ regs'.off[a] = 0
  <2>1. CASE ~st.vis
    BY <1>2, <2>1 DEF AtomicUpdate, vs_cursor_plane_hw_disable, RegType
  <2>2. CASE st.vis
    <3> DEFINE off == [a \in Axes |-> Offset(st.pos[a], a)]
               loc == [a \in Axes |-> Location(st.pos[a], a)]
               start == [a \in Axes |-> Start(st.pos[a])]
    <3>1. st.size \in HwSizes /\ \A a \in Axes : st.pos[a] < Screen
      BY <2>2 DEF IInv, CommitOK
    <3>2. regs' = [regs EXCEPT !.size = st.size, !.addr = st.fb, !.start = start,
                               !.off = off, !.loc = loc]
      BY <1>1, <2>2, <3>1 DEF AtomicUpdate
    <3>3. off \in [Axes -> 0 .. 2^OffWidth - 1] /\ \A a \in Axes : st.pos[a] >= 0 => off[a] = 0
      BY <1>2, OffsetContract
    <3>4. loc \in [Axes -> 0 .. 2^LocWidth - 1]
      BY <1>2, LocationContract
    <3>5. \A a \in Axes : st.pos[a] >= 0 => loc[a] = st.pos[a]
      BY <1>2, <3>1, LocationContract
    <3>7. start \in [Axes -> Nat] /\ \A a \in Axes : st.pos[a] >= 0 => start[a] = 0
      BY <1>2 DEF Start
    <3>6. st.fb \in FBs \cup {None}
      BY <1>2 DEF PlaneStates
    <3> HIDE DEF off, loc, start
    <3>8. /\ regs' \in RegType /\ regs'.fmt = regs.fmt /\ regs'.addr = st.fb
          /\ regs'.size = st.size /\ regs'.loc = loc /\ regs'.off = off /\ regs'.start = start
      BY <1>2, <3>1, <3>2, <3>3, <3>4, <3>6, <3>7 DEF RegType
    <3> QED
      BY <3>3, <3>5, <3>7, <3>8
  <2> QED
    BY <2>1, <2>2
<1>5. TypeOK'
  BY <1>1, <1>2, <1>3, <1>4 DEF TypeOK, RegType, PCs
<1>6. CommitOK'
  BY <1>1, <1>3 DEF IInv, CommitOK
<1>7. WrittenOK'
  BY <1>1, <1>4 DEF WrittenOK
<1>8. DetachedOff'
  BY <1>1, <1>3, <1>4 DEF IInv, DetachedOff, Idle
<1> QED
  BY <1>5, <1>6, <1>7, <1>8 DEF IInv

(* atomic_disable, atomic_enable, and a commit without a hook to call *)
LEMMA OtherStep ==
    ASSUME IInv, CommitNone \/ AtomicDisable \/ AtomicEnable
    PROVE  IInv'
<1>1. /\ com' = Idle /\ com'.pc = "idle" /\ com'.old = None /\ st' = st
      /\ com.pc \in {"none", "disable", "enable"}
  BY DEF CommitNone, AtomicDisable, AtomicEnable, Idle
<1>2. regs \in RegType
  BY DEF IInv, TypeOK, RegType
<1>3. /\ regs' \in RegType
      /\ regs'.addr = regs.addr /\ regs'.size = regs.size /\ regs'.loc = regs.loc
      /\ regs'.start = regs.start /\ regs'.off = regs.off
      /\ com.pc = "none" => regs'.fmt = regs.fmt
      /\ com.pc = "disable" => regs'.fmt = "off"
  BY <1>2 DEF CommitNone, AtomicDisable, AtomicEnable, vs_cursor_plane_hw_disable, RegType
<1>4. TypeOK'
  BY <1>1, <1>3 DEF IInv, TypeOK, RegType, Idle
<1>5. CommitOK'
  BY <1>1 DEF IInv, CommitOK
<1>6. WrittenOK'
  BY <1>1, <1>3 DEF IInv, CommitOK, WrittenOK
<1>7. DetachedOff'
  BY <1>1, <1>3 DEF IInv, CommitOK, DetachedOff
<1> QED
  BY <1>4, <1>5, <1>6, <1>7 DEF IInv

LEMMA NextIInv == IInv /\ [Next]_vars => IInv'
<1> SUFFICES ASSUME IInv, [Next]_vars PROVE IInv'
  OBVIOUS
<1>1. CASE UNCHANGED vars
  BY <1>1 DEF vars, IInv, TypeOK, CommitOK, WrittenOK, DetachedOff
<1> QED
  BY <1>1, CommitStep, UpdateStep, OtherStep DEF Next

-----------------------------------------------------------------------------
(* The inductive invariant holds throughout. *)
THEOREM CursorInvariance == Spec => []IInv
BY InitIInv, NextIInv, PTL DEF Spec

(* No register field ever gets a value wider than it is. *)
THEOREM CursorTypeCorrect == Spec => []TypeOK
<1>1. IInv => TypeOK
  BY DEF IInv
<1> QED
  BY <1>1, CursorInvariance, PTL

(* A cursor that is shown between commits is the committed one, read in     *)
(* rows of its pitch, and on an axis where it does not stick out at the     *)
(* left or the top it is at its coordinate and whole: no size the field     *)
(* cannot hold and no padded line gets past atomic_check, and no location   *)
(* on the largest screen is cut.  Nothing is said of where a cursor that    *)
(* sticks out appears.                                                      *)
THEOREM CursorShownRight == Spec => []ShownRight
<1>1. IInv => ShownRight
  BY DEF IInv, CommitOK, WrittenOK, ShownRight, Idle
<1> QED
  BY <1>1, CursorInvariance, PTL

(* A detached cursor is off until it is attached and written again. *)
THEOREM CursorDetachedOff == Spec => []DetachedOff
<1>1. IInv => DetachedOff
  BY DEF IInv
<1> QED
  BY <1>1, CursorInvariance, PTL
=============================================================================
