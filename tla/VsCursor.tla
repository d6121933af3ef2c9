------------------------------ MODULE VsCursor ------------------------------
(***************************************************************************)
(* The cursor plane of the Verisilicon display controller                  *)
(* (vs_cursor_plane.c) under the hooks of drm_atomic_helper_commit_planes: *)
(* checked commits, atomic_update, atomic_enable and atomic_disable, and   *)
(* the fields of its registers with their positions and widths.  The       *)
(* driver has no asynchronous update, so every change of the cursor is a   *)
(* commit, and commits of one CRTC run one at a time.  The cursor is the   *)
(* whole of its framebuffer.                                               *)
(***************************************************************************)
EXTENDS Integers

CONSTANTS
    FBs,     \* framebuffers of the cursor
    Pitch,   \* their pitches, in pixels
    None,    \* no framebuffer, hence no CRTC
    Sizes,   \* sizes that user space tries
    MaxSize, \* max_cursor_size of the chip
    Coords,  \* positions that user space tries, on either axis
    Screen   \* width and height of the mode

ASSUME VsCursorAssumption ==
    /\ None \notin FBs
    /\ Pitch \in [FBs -> Nat]
    /\ Sizes \subseteq Nat \ {0} /\ Sizes # {} /\ MaxSize \in {32, 64, 128, 256}
    /\ Coords \subseteq Int /\ 0 \in Coords
    /\ Screen \in 1 .. 8192     \* mode_config.max_width and max_height

VARIABLES
    st,    \* plane->state
    com,   \* the commit in its tail: the next hook and the old framebuffer
    regs   \* the fields of CURSOR_CONFIG, CURSOR_LOCATION and CURSOR_ADDRESS, the
           \* last as a framebuffer and the pixel of it, on each axis, that is read first

vars == <<st, com, regs>>

Axes == {"x", "y"}
PlaneStates == [fb: FBs \cup {None}, size: Sizes, pos: [Axes -> Coords], vis: BOOLEAN]
Idle == [pc |-> "idle", old |-> None]

(* the value a field holds after regmap_update_bits with "val": the bits    *)
(* under the mask                                                           *)
Field(val, shift, width) == (val \div 2^shift) % 2^width

OffShift == [x |-> 16, y |-> 8]   \* VSDC_CURSOR_CONFIG_{X,Y}_OFF_MASK
LocShift == [x |-> 0, y |-> 16]   \* VSDC_CURSOR_LOCATION_{X,Y}_MASK
OffWidth == 5
LocWidth == 15

Init ==
    /\ st = [fb |-> None, size |-> CHOOSE s \in Sizes : TRUE,
             pos |-> [a \in Axes |-> 0], vis |-> FALSE]
    /\ com = Idle
    /\ regs = [fmt |-> "off", size |-> 32, addr |-> None,
               start |-> [a \in Axes |-> 0],
               off |-> [a \in Axes |-> 0], loc |-> [a \in Axes |-> 0]]

-----------------------------------------------------------------------------
(* drm_atomic_helper_check_plane_state: part of the cursor is on the screen *)
Visible(s) ==
    s.fb # None /\ \A a \in Axes : s.pos[a] < Screen /\ s.pos[a] + s.size > 0

vs_cursor_plane_check_coord(c) == IF c >= 0 THEN c <= 2^15 ELSE -c <= 2^5

HwSizes == {32, 64, 128, 256}   \* the sizes VSDC_CURSOR_CONFIG_SIZE_MASK can hold

(* mutant: any size up to the maximum passes *)
MutAtomicCheck(s) ==
    /\ s.vis = Visible(s)
    /\ s.vis => /\ s.size <= MaxSize
                /\ \A a \in Axes : vs_cursor_plane_check_coord(s.pos[a])
                /\ Pitch[s.fb] = s.size

(* vs_cursor_plane_atomic_check *)
AtomicCheck(s) ==
    /\ s.vis = Visible(s)
    /\ s.vis => /\ s.size \in HwSizes /\ s.size <= MaxSize
                /\ \A a \in Axes : vs_cursor_plane_check_coord(s.pos[a])
                /\ Pitch[s.fb] = s.size

(* the swap of a checked state; "none" is a plane that stays without a CRTC *)
Commit(new) ==
    /\ com = Idle
    /\ AtomicCheck(new)
    /\ st' = new
    /\ com' = [pc |-> IF new.fb # None THEN "update"
                      ELSE IF st.fb # None THEN "disable" ELSE "none",
               old |-> st.fb]
    /\ UNCHANGED regs

CommitNone ==
    /\ com.pc = "none"
    /\ com' = Idle
    /\ UNCHANGED <<st, regs>>

(* mutant: the hook leaves the format alone *)
MutHwDisable == regs

vs_cursor_plane_hw_disable == [regs EXCEPT !.fmt = "off"]

(* vs_cursor_plane_atomic_disable *)
AtomicDisable ==
    /\ com.pc = "disable"
    /\ regs' = vs_cursor_plane_hw_disable
    /\ com' = Idle
    /\ UNCHANGED st

(* drm_rect_clip_scaled and vs_fb_get_dma_addr: what is beyond the left or  *)
(* the top of the screen is skipped in memory.                              *)
Start(c) == IF c < 0 THEN -c ELSE 0

Location(c, a) == IF c >= 0 THEN Field(c * 2^LocShift[a], LocShift[a], LocWidth) ELSE 0

(* For a negative coordinate the opposite number is passed to               *)
(* regmap_update_bits as it is, not shifted to the field.                   *)
Offset(c, a) == IF c >= 0 THEN 0 ELSE Field(-c, OffShift[a], OffWidth)

(* vs_cursor_plane_atomic_update; atomic_enable follows if the plane had no *)
(* CRTC.                                                                    *)
AtomicUpdate ==
    /\ com.pc = "update"
    /\ regs' = IF ~st.vis THEN vs_cursor_plane_hw_disable
               ELSE [regs EXCEPT !.size = IF st.size \in HwSizes THEN st.size ELSE @,
                                 !.addr = st.fb,
                                 !.start = [a \in Axes |-> Start(st.pos[a])],
                                 !.off = [a \in Axes |-> Offset(st.pos[a], a)],
                                 !.loc = [a \in Axes |-> Location(st.pos[a], a)]]
    /\ com' = IF com.old = None THEN [com EXCEPT !.pc = "enable"] ELSE Idle
    /\ UNCHANGED st

(* vs_cursor_plane_atomic_enable *)
AtomicEnable ==
    /\ com.pc = "enable"
    /\ regs' = [regs EXCEPT !.fmt = "ARGB8888"]
    /\ com' = Idle
    /\ UNCHANGED st

-----------------------------------------------------------------------------
Next ==
    \/ \E new \in PlaneStates : Commit(new)
    \/ CommitNone \/ AtomicDisable \/ AtomicUpdate \/ AtomicEnable

Spec == Init /\ [][Next]_vars

-----------------------------------------------------------------------------
(* The types of the state, the commit and the register fields. *)
TypeOK ==
    /\ st \in PlaneStates
    /\ com \in [pc: {"idle", "none", "disable", "update", "enable"},
                old: FBs \cup {None}]
    /\ regs \in [fmt: {"off", "ARGB8888"}, size: HwSizes,
                 addr: FBs \cup {None}, start: [Axes -> Nat],
                 off: [Axes -> 0 .. 2^OffWidth - 1],
                 loc: [Axes -> 0 .. 2^LocWidth - 1]]

(* Between commits a cursor that is on the screen and turned on is the one  *)
(* committed last: its image, read in rows of its pitch, which the hardware *)
(* takes to be the size; and on each axis where it does not stick out at    *)
(* the left or the top, from its first pixel and at its coordinate, with no *)
(* offset left behind.  Where it sticks out, OffsetRight is the question.   *)
ShownRight ==
    com = Idle /\ st.vis /\ regs.fmt # "off" =>
        /\ regs.addr = st.fb /\ regs.size = st.size /\ regs.size = Pitch[st.fb]
        /\ \A a \in Axes : st.pos[a] >= 0 =>
             regs.loc[a] = st.pos[a] /\ regs.start[a] = 0 /\ regs.off[a] = 0

(* What the comment in vs_cursor_plane_atomic_update says of a cursor that  *)
(* sticks out: "for negative coordinates the location is set to 0 and the   *)
(* offset is set to the opposite number of the coordinate".                 *)
OffsetRight ==
    com = Idle /\ st.vis /\ regs.fmt # "off" =>
        \A a \in Axes : st.pos[a] < 0 => regs.loc[a] = 0 /\ regs.off[a] = -st.pos[a]

(* A cursor that was taken off its CRTC is off, and stays off until the     *)
(* update of the commit that attaches it again has written its registers.   *)
DetachedOff ==
    \/ com = Idle /\ st.fb = None
    \/ com.pc = "none"
    \/ com.pc \in {"update", "enable"} /\ com.old = None
    => regs.fmt = "off"
=============================================================================
