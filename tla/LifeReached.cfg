\* One cw doctor, an agent run by hand and two that systemd may start, one stop
\* request, one failure, one cw agent install or uninstall, in any order
\* (UninstallReverses: systemctl fails in an uninstall).
SPECIFICATION FairSpec
CONSTANTS
    Activated = {s1, s2}
    ByHand = {h1}
    Doctor = {d1}
    Caller = {}
    Preset = {TRUE, FALSE}
    MaxStops = 1
    MaxFaults = 1
    MaxJobs = 1
    None = None
INVARIANTS ReadyOwnsName HealthyHasVault WokenGetsHealthy UninstalledStaysDown
\* INVARIANT UninstallReverses
PROPERTIES EveryWaitEnds StopIsActedOn
\* Every process may have ended.
CHECK_DEADLOCK FALSE
