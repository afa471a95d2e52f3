------------------------------- MODULE A2dpHw -------------------------------
(***************************************************************************)
(* audio/android_audio_hw.c: the output stream of Android's A2DP audio     *)
(* HAL.  AudioFlinger's playback thread F writes PCM frames into a ring    *)
(* buffer, the stream's own thread B takes them out and passes them to     *)
(* a2dp_write, and the binder thread C suspends, enables, disables and     *)
(* closes the stream.                                                      *)
(*                                                                         *)
(* buf_lock guards the ring, lock the flags; B holds neither during        *)
(* a2dp_write and leaves write_busy set instead.  Nothing blocks while     *)
(* lock is held except the wait for write_busy, which gives it up, so lock *)
(* is never seen held.  buf_lock is: F keeps it over its copy loop, B from *)
(* the end of one a2dp_write to the start of the next.                     *)
(***************************************************************************)
EXTENDS Integers

CONSTANTS
  BufSize,    \* frames in the ring
  MaxWrite,   \* bound: frames of one out_write
  MaxRetries, \* MAX_WRITE_RETRIES
  Scenarios   \* sets of what happens in one behaviour besides writing: F's
              \* "standby", C's other calls, "stall": F may wait for space
              \* until its timeout, and "hang": a2dp_write may outlast the five
              \* waits of out_standby_stream_locked

VARIABLES
  standby, bt_enabled, suspended, write_busy,  \* flags, under lock
  lib,                  \* out->data: has a2dp_init been called?
  rd, wr, ready,        \* buf_rd_idx, buf_wr_idx, buf_frames_ready
  exit,                 \* buf_thread_exit
  bpc, bframes, retries,\* B: where it is, its local frames and retries
  fpc, left,            \* F: where it is, frames it has still to copy
  apc,                  \* C: idle, or the call that waits in standby
  hasty,                \* what did not wait for the a2dp_write under way
  controls              \* what happens in this behaviour, one of Scenarios

flags == <<standby, bt_enabled, suspended, write_busy, lib>>
ring == <<rd, wr, ready>>
buffer == <<bpc, bframes, retries>>
flinger == <<fpc, left>>
hwvars == <<flags, ring, exit, buffer, flinger, apc, hasty>>

\* "second" and "gaveup": out_standby_stream_locked returned, because the stream was in
\* standby already or after its five waits.  "reset": out_write set the indexes to 0,
\* which is followed no further.  "enabled" has no end with the write: the stream was
\* disabled and enabled again during one out_write, and has no library.
Haste == {"second", "gaveup", "reset", "enabled"}
Hurry(why) == hasty' = IF write_busy THEN hasty \cup {why} ELSE hasty

Min(a, b) == IF a < b THEN a ELSE b

\* adev_open_output_stream ignores the result of a2dp_init.  B, just created, finds
\* nothing to write.
HwInit == /\ standby = FALSE /\ bt_enabled \in BOOLEAN /\ suspended \in BOOLEAN
          /\ write_busy = FALSE /\ lib \in BOOLEAN /\ (lib => bt_enabled)
          /\ rd = 0 /\ wr = 0 /\ ready = 0 /\ exit = FALSE
          /\ bpc = "wait" /\ bframes = 0 /\ retries = 0
          /\ fpc = "idle" /\ left = 0 /\ apc = "idle" /\ controls \in Scenarios
          /\ hasty = {}

\* F gives buf_lock up only when it waits or returns; B keeps it when
\* a2dp_write has returned.
HeldByF == fpc = "copy"
HeldByB == bpc = "again"

\* Contiguous space and contiguous frames.
_out_frames_available_wr == BufSize - wr
_out_frames_available == Min(BufSize - ready, BufSize - wr)
_out_frames_ready == Min(ready, BufSize - rd)

Wrap(i) == IF i = BufSize THEN 0 ELSE i

\* A signal on buf_cond wakes the other thread, if it waits.  F's wait after
\* it resumed the stream also ends by itself, and needs none.
WakeB == bpc' = IF bpc = "wait" THEN "run" ELSE bpc
WakeF == fpc' = IF fpc = "space" THEN "woken" ELSE fpc

-----------------------------------------------------------------------------
(* out_standby_stream_locked, called by F and C.  It returns at once if the *)
(* stream is in standby already; otherwise the caller waits for            *)
(* write_busy, giving lock up, and goes on after five waits.               *)

StandbyReturns == standby \/ ~lib

\* lock is given up in the wait: the flags may have changed.
WaitOver == (~write_busy \/ "hang" \in controls) /\ Hurry("gaveup")

-----------------------------------------------------------------------------
(* F: out_write and out_standby.                                           *)

\* The error labels of out_write: standby, with the frames lost.
WriteFails ==
  /\ left' = 0
  /\ IF StandbyReturns THEN fpc' = "idle" /\ UNCHANGED standby
                       ELSE fpc' = "standby" /\ standby' = TRUE

\* init: the result of a2dp_init, if it is needed.
out_write(n, init) ==
  /\ fpc = "idle" /\ ~exit /\ apc \notin {"close", "exit"} /\ ~HeldByB
  /\ IF ~bt_enabled \/ suspended
     THEN WriteFails /\ init /\ UNCHANGED <<ring, lib, hasty>>
     ELSE /\ IF standby THEN rd' = 0 /\ wr' = 0 /\ ready' = 0 /\ Hurry("reset")
                        ELSE UNCHANGED <<ring, hasty>>
          /\ IF lib \/ init
             THEN /\ init /\ lib' = TRUE
                  /\ fpc' = "copy" /\ left' = n /\ UNCHANGED standby
             ELSE WriteFails /\ UNCHANGED lib
  /\ UNCHANGED <<bt_enabled, suspended, write_busy, exit, buffer, apc>>

\* Some frames go into the ring, B is told, and a stream in standby is
\* resumed, after which F waits for B to begin.
CopyFrames ==
  LET n == Min(_out_frames_available, left)
  IN /\ wr' = Wrap(wr + n)
     /\ ready' = ready + n
     /\ left' = left - n
     /\ WakeB
     /\ IF standby /\ bt_enabled
        THEN standby' = FALSE /\ fpc' = "pause"
        ELSE /\ fpc' = IF left' = 0 THEN "idle" ELSE "copy"
             /\ UNCHANGED standby
     /\ UNCHANGED <<rd, bt_enabled, suspended, write_busy, lib, exit, bframes,
                    retries, apc, hasty>>

Copy == fpc = "copy" /\ _out_frames_available > 0 /\ CopyFrames

Full == /\ fpc = "copy" /\ _out_frames_available = 0
        /\ fpc' = "space"
        /\ UNCHANGED <<flags, ring, exit, buffer, left, apc, hasty>>

\* After the wait for space F copies what there is room for, maybe nothing.
Space == fpc = "woken" /\ ~HeldByB /\ CopyFrames

SpaceTimeout == /\ fpc = "space" /\ "stall" \in controls /\ ~HeldByB
                /\ WriteFails
                /\ UNCHANGED <<bt_enabled, suspended, write_busy, lib, ring, exit,
                               buffer, apc, hasty>>

Resume == /\ fpc = "pause" /\ ~HeldByB
          /\ fpc' = IF left = 0 THEN "idle" ELSE "copy"
          /\ UNCHANGED <<flags, ring, exit, buffer, left, apc, hasty>>

out_standby == /\ fpc = "idle" /\ ~exit /\ apc \notin {"close", "exit"}
               /\ "standby" \in controls
               /\ ~StandbyReturns
               /\ fpc' = "standby" /\ standby' = TRUE
               /\ UNCHANGED <<bt_enabled, suspended, write_busy, lib, ring, exit,
                              buffer, left, apc, hasty>>

StandbyDone == /\ fpc = "standby" /\ WaitOver
               /\ fpc' = "idle"
               /\ UNCHANGED <<flags, ring, exit, buffer, left, apc>>

-----------------------------------------------------------------------------
(* B: _out_buf_thread_func.                                                *)

_out_inc_rd_idx(n) == rd' = Wrap(rd + n) /\ ready' = ready - n /\ WakeF

\* Nothing to do: B waits for a signal, or ends.
Rest == /\ bpc' = IF exit THEN "done" ELSE "wait"
        /\ bframes' = 0

\* The next write begins, unless the stream is in standby or disabled, when
\* the frames are dropped.
BufNext ==
  /\ bpc = "again" \/ (bpc = "run" /\ ~HeldByF)
  /\ LET frames == IF bframes > 0 THEN bframes ELSE _out_frames_ready
     IN \/ /\ exit \/ frames = 0
           /\ Rest /\ UNCHANGED <<flags, ring, retries, fpc>>
        \/ /\ ~exit /\ frames > 0 /\ (standby \/ ~bt_enabled)
           /\ _out_inc_rd_idx(_out_frames_ready) /\ Rest
           /\ UNCHANGED <<flags, wr, retries>>
        \/ /\ ~exit /\ frames > 0 /\ ~standby /\ bt_enabled
           /\ write_busy' = TRUE /\ bpc' = "write" /\ bframes' = frames
           /\ retries' = IF bframes > 0 THEN retries ELSE MaxRetries
           /\ UNCHANGED <<standby, bt_enabled, suspended, lib, ring, fpc>>
  /\ UNCHANGED <<exit, left, apc, hasty>>

\* a2dp_write returns.  On error all frames B knew of are skipped, and so
\* they are when it wrote nothing too often; otherwise it goes on.
BufWritten(n) ==
  /\ bpc = "write" /\ ~HeldByF
  /\ n \in -1..bframes
  /\ write_busy' = FALSE
  /\ hasty' = hasty \cap {"enabled"}
  /\ bpc' = "again"
  /\ \/ /\ n < 0 \/ (n = 0 /\ retries = 0)
        /\ _out_inc_rd_idx(bframes) /\ bframes' = 0 /\ UNCHANGED retries
     \/ /\ n = 0 /\ retries > 0
        /\ retries' = retries - 1 /\ UNCHANGED <<rd, ready, bframes, fpc>>
     \/ n > 0 /\ _out_inc_rd_idx(n) /\ bframes' = bframes - n /\ UNCHANGED retries
  /\ UNCHANGED <<standby, bt_enabled, suspended, lib, wr, exit, left, apc>>

HwSpuriousWakeup == /\ bpc = "wait" /\ bpc' = "run"
                    /\ UNCHANGED <<flags, ring, exit, bframes, retries, flinger, apc, hasty>>

-----------------------------------------------------------------------------
(* C: adev_set_parameters and adev_close_output_stream, one at a time.     *)

\* What follows out_standby_stream_locked in each call; stopped: its result
\* was 0.  Disabling and closing clean the library up.
Afterwards(call, stopped) ==
  /\ suspended' = CASE call = "suspend" -> suspended \/ stopped
                    [] call = "resume" -> FALSE
                    [] OTHER -> suspended
  /\ lib' = (lib /\ call \notin {"disable", "close"})
  /\ apc' = IF call = "close" THEN "exit" ELSE "idle"

\* The calls of C that go through standby.
Calls == UNION {CASE c = "suspend" -> {"suspend", "resume"}
                  [] c \in {"disable", "close"} -> {c}
                  [] OTHER -> {} : c \in controls}

\* A stream is closed when F does not use it any more.
HwControl(call) ==
  /\ apc = "idle" /\ ~exit
  /\ call = "close" => fpc = "idle"
  /\ bt_enabled' = (bt_enabled /\ call \notin {"disable", "close"})
  /\ IF StandbyReturns
     THEN Afterwards(call, TRUE) /\ Hurry("second") /\ UNCHANGED standby
     ELSE /\ standby' = TRUE /\ apc' = call
          /\ UNCHANGED <<suspended, lib, hasty>>
  /\ UNCHANGED <<write_busy, ring, exit, buffer, flinger>>

\* The wait is over.  a2dp_stop is only called while Bluetooth is enabled.
ControlDone(stopped) ==
  /\ apc \in Calls /\ WaitOver
  /\ bt_enabled \/ stopped
  /\ Afterwards(apc, stopped)
  /\ UNCHANGED <<standby, bt_enabled, write_busy, ring, exit, buffer, flinger>>

CloseThread_silent == /\ apc = "exit" /\ ~HeldByB
                      /\ exit' = TRUE /\ apc' = "idle"
                      /\ UNCHANGED <<flags, ring, buffer, flinger, hasty>>

\* The end of adev_close_output_stream_locked: B is told to exit.
CloseThread == /\ apc = "exit" /\ ~HeldByB
               /\ exit' = TRUE /\ WakeB
               /\ apc' = "idle"
               /\ UNCHANGED <<flags, ring, bframes, retries, flinger, hasty>>

Enable == /\ apc = "idle" /\ ~exit /\ "enable" \in controls
          /\ ~bt_enabled /\ bt_enabled' = TRUE
          /\ hasty' = IF ~lib /\ fpc \notin {"idle", "standby"} THEN hasty \cup {"enabled"}
                                                               ELSE hasty
          /\ UNCHANGED <<standby, suspended, write_busy, lib, ring, exit, buffer,
                         flinger, apc>>

Step == \/ \E n \in 1..MaxWrite, init \in BOOLEAN : out_write(n, init)
        \/ Copy \/ Full \/ Space \/ SpaceTimeout \/ Resume
        \/ out_standby \/ StandbyDone
        \/ BufNext \/ \E n \in -1..BufSize : BufWritten(n)
        \/ HwSpuriousWakeup
        \/ \E call \in Calls : HwControl(call)
        \/ \E stopped \in BOOLEAN : ControlDone(stopped)
        \/ CloseThread \/ Enable

HwNext == "reset" \notin hasty /\ Step /\ UNCHANGED controls

HwFairness == /\ WF_hwvars(BufNext) /\ WF_hwvars(\E n \in -1..BufSize : BufWritten(n))
              /\ WF_hwvars(Copy \/ Full) /\ WF_hwvars(Space) /\ WF_hwvars(Resume)
              /\ WF_hwvars(SpaceTimeout) /\ WF_hwvars(CloseThread)
              /\ WF_hwvars(StandbyDone)
              /\ WF_hwvars(\E stopped \in BOOLEAN : ControlDone(stopped))

HwSpec == HwInit /\ [][HwNext]_<<hwvars, controls>>
HwFairSpec == HwSpec /\ HwFairness

-----------------------------------------------------------------------------
(* Properties.                                                             *)

HwTypeOK ==
  /\ standby \in BOOLEAN /\ bt_enabled \in BOOLEAN /\ suspended \in BOOLEAN
  /\ write_busy \in BOOLEAN /\ lib \in BOOLEAN /\ exit \in BOOLEAN
  /\ rd \in 0..BufSize /\ wr \in 0..BufSize /\ ready \in -BufSize..2*BufSize
  /\ bpc \in {"run", "wait", "write", "again", "done"} /\ bframes \in 0..BufSize
  /\ retries \in 0..MaxRetries
  /\ fpc \in {"idle", "copy", "space", "woken", "pause", "standby"} /\ left \in 0..MaxWrite
  /\ apc \in {"idle", "suspend", "resume", "disable", "close", "exit"}
  /\ hasty \subseteq Haste

\* buf_frames_ready, the "number of frames ready for writing to a2dp sink",
\* is what lies between the two indexes, so F never overwrites a frame that B
\* has not taken and B never sends one that was not written.
RingConsistent == /\ HwTypeOK
                  /\ ready \in 0..BufSize
                  /\ (rd + ready) % BufSize = wr % BufSize

\* The comment at write_busy says that "standby must wait for this flag to be
\* cleared by write thread": the library is not cleaned up during a2dp_write.
LibValid == bpc = "write" => lib

\* The two ways in which out_write can reset the indexes under a2dp_write, with whose
\* end they would go wrong: C has put the stream in standby to suspend or resume it and
\* waits, or a wait was given up.
ResetOnly == "reset" \in hasty => apc \in {"suspend", "resume"} \/ "gaveup" \in hasty

\* And the three in which the library is gone under a2dp_write: a second caller of
\* out_standby_stream_locked, or one that gave up, cleaned it up, or it was disabled and
\* enabled again during one out_write.
LibKept == bpc = "write" => lib \/ {"second", "gaveup", "enabled"} \cap hasty # {}

\* buf_frames_ready is what lies between the two indexes, so that out_write never
\* overwrites a frame that the buffer thread has not taken, which never sends one
\* that was not written, until out_write resets them under a2dp_write; and a2dp_cleanup
\* does not free the library under a2dp_write.  Both but for the cases that ResetOnly and
\* LibKept name, whatever AudioFlinger and the binder thread do in whatever order.
HwSafe == RingConsistent /\ ResetOnly /\ LibKept

\* However B's writes turn out, and also when the stream is disabled or put
\* in standby meanwhile, F gets its space: out_write and out_standby return, unless the
\* ring was reset under a write.
WriteReturns == fpc # "idle" ~> fpc = "idle" \/ "reset" \in hasty

\* adev_close_output_stream joins B: B ends, whether it waits or writes when
\* buf_thread_exit is set.
ThreadEnds == exit ~> bpc = "done"

\* Every wait of the HAL ends: for space or the write in out_write and
\* out_standby, for the thread in adev_close_output_stream.
HwWaitsEnd == WriteReturns /\ ThreadEnds

=============================================================================
