\* The module-level code of benchmarks.py, from the suite strings to the
\* last dictionary item; it runs once and stops.
SPECIFICATION Spec
INVARIANT EveryListedBenchmarkRunsFromItsSuite
CHECK_DEADLOCK FALSE
