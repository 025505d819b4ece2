---------------------- MODULE MCStreamingToolExecutor ----------------------
(***************************************************************************)
(* Instances of StreamingToolExecutor for TLC: the kinds of tool calls and *)
(* the messages with which a call ends.                                    *)
(***************************************************************************)
EXTENDS StreamingToolExecutor

Kind(safe, bash, cancel, io) ==
  [known |-> TRUE, safe |-> safe, bash |-> bash, cancel |-> cancel, io |-> io]

Read == Kind(TRUE, FALSE, FALSE, TRUE)       \* FileReadTool
Search == Kind(TRUE, TRUE, FALSE, TRUE)      \* BashTool, a read-only command
Edit == Kind(FALSE, FALSE, FALSE, TRUE)      \* FileEditTool
Bash == Kind(FALSE, TRUE, FALSE, TRUE)       \* BashTool, any other command
TaskList == Kind(TRUE, FALSE, FALSE, FALSE)  \* answers from memory
Sleep == Kind(TRUE, FALSE, TRUE, TRUE)       \* interruptBehavior 'cancel'

SafetyKinds == {Read, Search, Bash, Unknown}
SomeKinds == {Search, Edit, Unknown}
QuickKinds == {Search, Edit, TaskList, Sleep}

\* A success or an error, each followed by a hook's message or alone.
AllBursts == {<<"ok", "extra">>, <<"err", "extra">>}
ShortBursts == {<<"ok">>, <<"err">>}
=============================================================================
