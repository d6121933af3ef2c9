----------------------------- MODULE Ma35Planes -----------------------------
(***************************************************************************)
(* The planes of the MA35D1 display driver (drm/nuvoton/ma35_plane.c):     *)
(* primary, overlay and cursor, driven by commits of the atomic helpers,   *)
(* by asynchronous updates of the cursor, which change the current plane   *)
(* state in place instead of swapping in a new one, and by the legacy      *)
(* cursor ioctl, which writes the hotspot into it.                         *)
(*                                                                         *)
(* After the swap the new state of a commit is plane->state itself, so the *)
(* hooks of the commit read "st", and a change in place is seen by them.   *)
(* One commit at a time is between swap and hw_done, as in VsDisplay: all  *)
(* three planes belong to the one CRTC.                                    *)
(***************************************************************************)
EXTENDS Integers, FiniteSets

CONSTANTS
    FBs,        \* framebuffers
    None,       \* no framebuffer, hence no CRTC
    Coords,     \* horizontal positions of the cursor
    Hots,       \* cursor hotspots
    Width,      \* of the mode
    CursorSize  \* MA35_CURSOR_SIZE

ASSUME Ma35PlanesAssumption ==
    /\ None \notin FBs
    /\ Coords \subseteq Int /\ Coords # {}
    /\ 0 \in Hots
    /\ Width \in Nat \ {0} /\ CursorSize \in Nat \ {0}

VARIABLES
    st,      \* plane->state of each plane
    com,     \* the commit in its tail: the planes still to write and the old states
    hw       \* the plane registers

vars == <<st, com, hw>>

Planes == {"primary", "overlay", "cursor"}
States == [fb: FBs \cup {None}, x: Coords, hot: Hots, vis: BOOLEAN]
OffState == [fb |-> None, x |-> CHOOSE x \in Coords : TRUE, hot |-> 0, vis |-> FALSE]
NoCommit == [todo |-> {}, old |-> [p \in {} |-> OffState]]

Init ==
    /\ st = [p \in Planes |-> OffState]
    /\ com = NoCommit
    /\ hw = [en |-> [p \in Planes |-> FALSE], addr |-> [p \in Planes |-> None],
             x |-> 0]

-----------------------------------------------------------------------------
(* The checks *)

(* What drm_atomic_helper_check_plane_state clips to: some of the cursor    *)
(* is on the screen.                                                        *)
OnScreen(x) == x < Width /\ x + CursorSize > 0

(* The state that comes out of the check hooks: a plane without a           *)
(* framebuffer is not visible, the primary plane covers the screen, the     *)
(* overlay has no negative position.  Only the cursor's position and        *)
(* hotspot matter below; the other planes keep theirs.                      *)
Checked(p, fb, x, hot) ==
    IF p = "cursor"
    THEN [fb |-> fb, x |-> x, hot |-> hot, vis |-> fb # None /\ OnScreen(x)]
    ELSE [OffState EXCEPT !.fb = fb, !.vis = fb # None]

(* plane->state->commit->hw_done *)
InFlight(p) == p \in DOMAIN com.old
HwDone(p) == ~InFlight(p)

(* setup_commit and swap_state for a commit of the planes of "new"; the     *)
(* previous commit has reached hw_done.                                     *)
Commit(new) ==
    /\ com = NoCommit
    /\ DOMAIN new # {}
    /\ com' = [todo |-> DOMAIN new, old |-> [p \in DOMAIN new |-> st[p]]]
    /\ st' = [p \in Planes |-> IF p \in DOMAIN new THEN new[p] ELSE st[p]]
    /\ UNCHANGED hw

-----------------------------------------------------------------------------
(* drm_atomic_helper_commit_planes: the hook of each plane of the commit,   *)
(* in the order of their creation                                           *)

Disabling(p) == com.old[p].fb # None /\ st[p].fb = None

(* mutant: the position is written as it is *)
MutClamp(x) == x

(* ma35_cursor_position_update *)
Clamp(x) == IF x < 0 THEN 0 ELSE x

(* the plane of the commit whose turn it is *)
Turn(p) ==
    /\ p \in com.todo
    /\ p = "overlay" => "primary" \notin com.todo
    /\ p = "cursor" => com.todo = {"cursor"}

Written(p) == com' = [com EXCEPT !.todo = @ \ {p}] /\ UNCHANGED st

(* mutant: a disabled primary plane stays on *)
MutPlaneDisable(p) ==
    /\ Turn(p) /\ p # "cursor" /\ Disabling(p)
    /\ hw' = hw
    /\ Written(p)

(* ma35_plane_atomic_disable, the hook of primary and overlay: it clears    *)
(* MA35_PRIMARY_ENABLE whichever of them it is called for.                  *)
PlaneDisable(p) ==
    /\ Turn(p) /\ p # "cursor" /\ Disabling(p)
    /\ hw' = [hw EXCEPT !.en["primary"] = FALSE]
    /\ Written(p)

(* ma35_plane_atomic_update *)
PlaneUpdate(p) ==
    /\ Turn(p) /\ p # "cursor" /\ ~Disabling(p)
    /\ hw' = IF st[p].fb = None THEN hw
             ELSE [hw EXCEPT !.en[p] = TRUE, !.addr[p] = st[p].fb]
    /\ Written(p)

(* ma35_cursor_plane_atomic_disable *)
CursorDisable ==
    /\ Turn("cursor") /\ Disabling("cursor")
    /\ hw' = [hw EXCEPT !.en["cursor"] = FALSE]
    /\ Written("cursor")

(* The register writes of both cursor updates: position, then address and   *)
(* format if the framebuffers differ, then hotspot and format if the        *)
(* hotspots differ.  The hotspot itself is not kept, only that the write    *)
(* sets the format.  A hidden cursor is only turned off.                    *)
WriteCursor(vis, x, fb, fbdiff, hotdiff) ==
    IF ~vis THEN [hw EXCEPT !.en["cursor"] = FALSE]
    ELSE [hw EXCEPT !.x = Clamp(x),
                    !.addr["cursor"] = IF fbdiff THEN fb ELSE @,
                    !.en["cursor"] = @ \/ fbdiff \/ hotdiff]

(* mutant: the position is written only together with the framebuffer *)
MutCursorUpdate ==
    /\ Turn("cursor") /\ ~Disabling("cursor")
    /\ LET old == com.old["cursor"]  new == st["cursor"]
       IN  hw' = IF new.fb = None \/ (new.vis /\ old.fb = new.fb) THEN hw
                 ELSE WriteCursor(new.vis, new.x, new.fb, old.fb # new.fb,
                                  old.hot # new.hot)
    /\ Written("cursor")

(* ma35_cursor_plane_atomic_update *)
CursorUpdate ==
    /\ Turn("cursor") /\ ~Disabling("cursor")
    /\ LET old == com.old["cursor"]  new == st["cursor"]
       IN  hw' = IF new.fb = None THEN hw
                 ELSE WriteCursor(new.vis, new.x, new.fb, old.fb # new.fb,
                                  old.hot # new.hot)
    /\ Written("cursor")

(* drm_atomic_helper_commit_hw_done; then the old states are released *)
CommitHwDone ==
    /\ com # NoCommit /\ com.todo = {}
    /\ com' = NoCommit
    /\ UNCHANGED <<st, hw>>

-----------------------------------------------------------------------------
(* Changes of the current plane state in place *)

(* mutant: an outstanding commit of the plane does not matter *)
MutAsyncCheck == st["cursor"].fb # None

(* drm_atomic_helper_async_check, for the one plane that has the hook *)
AsyncCheck == st["cursor"].fb # None /\ HwDone("cursor")

(* Its swap() exchanges two local variables: the plane state keeps its      *)
(* framebuffer, and the address written is that of the old one.  The        *)
(* visibility of the state in place is not updated either.  The hotspot is  *)
(* a copy of the current one.                                               *)
ma35_cursor_plane_atomic_async_update(fb, x) ==
    /\ LET old == st["cursor"]
       IN  hw' = WriteCursor(OnScreen(x), x, old.fb, fb # old.fb, FALSE)
    /\ st' = [st EXCEPT !["cursor"].x = x]

(* SETPLANE on the cursor: drm_atomic_helper_async_commit *)
AsyncUpdate(fb, x) ==
    /\ AsyncCheck
    /\ ma35_cursor_plane_atomic_async_update(fb, x)
    /\ UNCHANGED com

(* drm_mode_cursor_universal with a buffer: the hotspot is written into the *)
(* current state, then the update is refused, because the buffer is wrapped *)
(* as ARGB8888 and the cursor plane has only XRGB8888.                      *)
LegacyCursorBo(hot) ==
    /\ st' = [st EXCEPT !["cursor"].hot = hot]
    /\ UNCHANGED <<com, hw>>

-----------------------------------------------------------------------------
CommitTail ==
    \/ \E p \in Planes : PlaneDisable(p) \/ PlaneUpdate(p)
    \/ CursorDisable \/ CursorUpdate \/ CommitHwDone

(* the new states a commit of the planes S can bring *)
NewStates(S) ==
    {[p \in S |-> Checked(p, fb[p], x, hot)] :
        fb \in [S -> FBs \cup {None}], x \in Coords, hot \in Hots}

Next ==
    \/ \E S \in SUBSET Planes : \E new \in NewStates(S) : Commit(new)
    \/ CommitTail
    \/ \E fb \in FBs, x \in Coords : AsyncUpdate(fb, x)
    \/ \E hot \in Hots : LegacyCursorBo(hot)

Spec == Init /\ [][Next]_vars

-----------------------------------------------------------------------------
(* Properties *)

(* The types of the plane states, the commit and the registers. *)
TypeOK ==
    /\ st \in [Planes -> States]
    /\ com.todo \subseteq DOMAIN com.old
    /\ DOMAIN com.old \subseteq Planes /\ \A p \in DOMAIN com.old : com.old[p] \in States
    /\ hw \in [en: [Planes -> BOOLEAN], addr: [Planes -> FBs \cup {None}],
               x: Nat]

(* "prevents our async update's changes from getting overridden by a        *)
(* previous synchronous update's state": once no commit of the cursor is    *)
(* outstanding, a cursor that is detached or was moved off the screen, by   *)
(* either path, is off.                                                     *)
CursorHidden ==
    HwDone("cursor") /\ ~(st["cursor"].fb # None /\ OnScreen(st["cursor"].x))
        => ~hw.en["cursor"]

(* A cursor that is shown is where the last update put it, a commit or an   *)
(* update in place, with negative positions clamped.                        *)
CursorPlaced ==
    HwDone("cursor") /\ hw.en["cursor"] => hw.x = Clamp(st["cursor"].x)

(* the framebuffers of the plane that some plane state holds a reference to *)
Held(p) == {st[p].fb} \cup (IF InFlight(p) THEN {com.old[p].fb} ELSE {})

(* "cleaning up the framebuffers after the old framebuffer is no longer     *)
(* being displayed", drm_atomic_helper.c: a plane that scans out reads a    *)
(* framebuffer that its state, or the commit that replaces it, still holds. *)
PrimaryHeld == hw.en["primary"] => hw.addr["primary"] \in Held("primary")

(* The same for the cursor, whose registers are written by commits and in   *)
(* place, and only where framebuffer or hotspot differ.                     *)
CursorHeld == hw.en["cursor"] => hw.addr["cursor"] \in Held("cursor")

(* The same for the overlay, which ma35_plane_atomic_disable should turn    *)
(* off.                                                                     *)
OverlayHeld == hw.en["overlay"] => hw.addr["overlay"] \in Held("overlay")
=============================================================================
