SPECIFICATION SchedulerSpec
CONSTANT MaxProcesses = 4
INVARIANTS QueueTypeOK NoOvertaking
PROPERTY WorkConserving
