---------------------------- MODULE MCSpwLifecycle ----------------------------
(* SpwLifecycle on two devices of three channels each, two of them enabled:   *)
(* a start can fail after one channel runs.                                   *)
EXTENDS SpwLifecycle

MCChanMask == {0, 1}

\* enable_chan_mask = 1, as in dev_def_cfg
MCFirst == {0}
=============================================================================
