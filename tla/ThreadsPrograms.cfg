SPECIFICATION FairSpec
CONSTANTS
  Loops = 2
  Slots = 2
  Spurious = 1
  Names = {
    "join", "join_no_lock", "join_no_state_var", "join_modular", "join_spin",
    "main_signal_cv", "join_sema", "zemaphore", "ordering", "ordering_fixed", "atomicity",
    "atomicity_fixed", "badcnt", "binary", "throttle", "throttle_zem", "race", "norace",
    "vector_deadlock", "vector_aligned", "vector_avoid_hold_and_wait",
    "vector_global_order", "vector_try_wait", "vector_try_wait_aligned", "vector_nolock", "vector_nolock_opposed",
    "deadlock", "main_deadlock", "main_deadlock_global", "dining_philosophers_deadlock",
    "dining_philosophers_no_deadlock", "rwlock", "pc", "pc_1", "pc_single_cv_1",
    "pc_single_cv", "two_cvs_while", "one_cv_while", "two_cvs_if",
    "producer_consumer_works", "echoservert_pre"}
INVARIANTS TypeOK NoMisuse NoDataRace ResultsSerial
PROPERTIES Termination
CHECK_DEADLOCK FALSE
