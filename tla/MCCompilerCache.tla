-------------------------- MODULE MCCompilerCache --------------------------
EXTENDS CompilerCache

CONSTANTS j1, j2, j3, cpp, python

ThreeJobs == {j1, j2, j3}
TwoCompilers == {cpp, python}
=============================================================================
