\* Two workers and a check at least every two seconds (worker_sound_ivl 2000).
CONSTANTS
  Worker = {w1, w2}
  CheckInterval = 2
SPECIFICATION Spec
INVARIANTS TypeOK ReadyCounted SendsToLive SilentIsForgotten
PROPERTY ReadyByItsWord
