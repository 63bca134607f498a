-------------------------- MODULE MC_BenchmarkData --------------------------
EXTENDS BenchmarkData
====
