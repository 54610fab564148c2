\* The module-level code of benchmarks.py runs once: the loop ends.
SPECIFICATION Spec
INVARIANT EveryConfiguredBenchmarkListed
CHECK_DEADLOCK FALSE
