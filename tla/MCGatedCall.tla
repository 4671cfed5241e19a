----------------------------- MODULE MCGatedCall -----------------------------
(* Small instances of GatedCall.                                             *)
EXTENDS GatedCall, TLC

Secrets == {[tool |-> "gh", class |-> "secret-reveal"], [tool |-> "gh", class |-> "write"]}
Writes == {[tool |-> "gh", class |-> "write"]}

\* Pid 0 is systemd; the other pids are harnesses of their own.
SystemdAndHarness == [l \in Gate!Launcher |-> IF l.pid = ReaperPid THEN "systemd" ELSE "claude"]
OnePerPid == [l \in Gate!Launcher |-> l.pid]

AllLevels == {Unenrolled} \cup {Enrolled(l) : l \in Level}
DenyOrRead == {Unenrolled, Enrolled("Read")}
ReadOrFull == {Unenrolled, Enrolled("Read"), Enrolled("Full")}
CallSymmetry == Permutations(Call)
=============================================================================
