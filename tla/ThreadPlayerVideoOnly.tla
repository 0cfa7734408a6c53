------------------------ MODULE ThreadPlayerVideoOnly ------------------------
(***************************************************************************)
(* code/sdl/thread_player_video_only.cpp: the player without the audio     *)
(* device. Its threads are those of ThreadPlayer, step for step, but no    *)
(* packet goes to an audio queue and the main loop ends at the first       *)
(* THREAD_QUIT event instead of the second.                                *)
(***************************************************************************)
EXTENDS ThreadPlayer

ASSUME VideoOnlyAssumption == WithAudio = FALSE /\ WaitFor = 1

\* The demuxer publishes the video decoder alone.
RemuxThread == RemuxStep

\* A frame is due at its distance from the first one; that changes no step.
VideoDecodeThread == VideoStep

\* The loop, then the window, then the return of main, which ends whatever
\* thread still runs: the queues of main are then gone under it.
MainThread == MainStep \/ UserCloses

VideoOnlyNext == RemuxThread \/ VideoDecodeThread \/ MainThread

\* Each thread keeps taking its next step when it can.
VideoOnlySpec ==
  /\ Init /\ [][VideoOnlyNext]_vars
  /\ WF_vars(RemuxThread) /\ WF_vars(VideoDecodeThread) /\ WF_vars(MainStep)

------------------------------------------------------------------------------
(* Properties *)

\* One thread is enough to end the loop: here a demuxer that waits for a place
\* in a full queue does not keep the window open, unlike in ThreadPlayer.
WindowCloses == quit ~> main # "loop"
==============================================================================
