---------------------------- MODULE RecorderMC ----------------------------
(* Instances of Recorder, one set of options after another.                *)
EXTENDS Recorder

Run(pty, stdin, watcher, adapter) ==
    [pty |-> pty, stdin |-> stdin, watcher |-> watcher, adapter |-> adapter]

\* A pipe with each kind of adapter, a PTY with input, and a watched workspace.
MCOptions ==
    {Run(FALSE, FALSE, FALSE, "prompt"), Run(FALSE, FALSE, FALSE, "deaf"),
     Run(FALSE, FALSE, TRUE, "none"), Run(TRUE, TRUE, FALSE, "none")}

MCDeaf == {Run(FALSE, FALSE, FALSE, "deaf")}
============================================================================
