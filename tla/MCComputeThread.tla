-------------------------- MODULE MCComputeThread --------------------------
(* Small instance of ComputeThread for TLC. *)
EXTENDS ComputeThread

Cmd(k, d, a, i) == [kind |-> k, dev |-> d, key |-> a, input |-> i]

\* Two RandomX seeds and a job of another device.
Rx1 == Cmd("mine", "rx", "k1", "x")
Rx2 == Cmd("mine", "rx", "k2", "y")
Fn == Cmd("mine", "fn", "cn", "z")
\* A benchmark, tests, and a command that carries no job.
Others == {Cmd("bench", "rx", "k1", "b"), Cmd("test", "rx", "k1", "t"),
           Cmd("test", "fn", "cn", "u"), Cmd("misc", "fn", "", "")}
Pause == Cmd("pause", "fn", "", "")

\* A job after any job, pause or close after a job, and a third command where
\* the first job may come back after the second one failed.
MCScripts ==
    {<<c>> : c \in {Rx1, Rx2, Fn} \cup Others}
    \cup {Rx1, Rx2, Fn} \X {Rx1, Fn, Pause, Close}
    \cup Others \X {Rx1, Close}
    \cup {<<Rx1, Rx2, Rx1>>, <<Rx1, Fn, Rx1>>, <<Fn, Rx1, Fn>>}
    \cup {<<Rx1, Rx2>>, <<Rx1, Pause, Close>>}
=============================================================================
