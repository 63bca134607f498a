-------------------------- MODULE MC_BenchmarkApp --------------------------
EXTENDS BenchmarkApp
=============================================================================
