----------------------------- MODULE MCEditorFiles ----------------------------
EXTENDS EditorFiles, TLC

CONSTANTS a, b, ta, tb

TwoNames == {a, b}
OneFile == a :> ta
Drops == {b :> tb, b :> Binary}

\* The user does not act on a file before the tasks for it have ended.
GivesTime == ~raced

\* Two texts and a click, or a text and two clicks.
MaxInputs == 3
FewInputs == edits + ops <= MaxInputs
==============================================================================
