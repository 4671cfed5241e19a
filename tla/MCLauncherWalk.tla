----------------------------- MODULE MCLauncherWalk -----------------------------
(* Small instances of LauncherWalk.                                          *)
EXTENDS LauncherWalk, TLC

Programs == "systemd" :> "pacman" @@ "cw" :> "unmanaged" @@ "bash" :> "shell" @@
            "sudo" :> "hidden" @@ "fish" :> "miseShell" @@ "claude" :> "mise" @@
            "node" :> "unmanaged" @@ "foot" :> "pacman" @@
            "locked" :> "unhashable"
=============================================================================
