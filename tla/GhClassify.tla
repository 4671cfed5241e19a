------------------------------ MODULE GhClassify ------------------------------
(* The class of a gh invocation (internal/ghclassify), as the shim asks for it   *)
(* (internal/shimexec): a table of subcommand paths, of which the longest that   *)
(* the arguments start with counts, and the flags that raise a class. Arguments  *)
(* are words; the specification spells a command line word by word.              *)
EXTENDS Policy, Sequences

CONSTANTS
    Flag,     \* words that start with "-"
    Operand,  \* bound: other words tried as arguments, be they of a path or not
    MaxArgs   \* bound: words of a command line

VARIABLES tool, args

-----------------------------------------------------------------------------
(* table                                                                     *)

ReadPath ==
         {"repo"} \X {"view", "list", "deploy-key", "autolink", "gitignore", "license",
           "credits"}
    \cup {"pr"} \X {"list", "view", "status", "diff", "checks"}
    \cup {"issue"} \X {"list", "view", "status"}
    \cup {"gist", "workflow", "project"} \X {"list", "view"}
    \cup {"release"} \X {"list", "view", "download"}
    \cup {"secret", "cache", "ssh-key", "gpg-key", "org", "label", "extension",
           "alias"} \X {"list"}
    \cup {"variable"} \X {"list", "get"}
    \cup {"run"} \X {"list", "view", "watch", "download"}
    \cup {"config"} \X {"get", "list"}
    \cup {"codespace"} \X {"list", "view", "ports", "logs"}
    \cup {"ruleset"} \X {"list", "view", "check"}
    \cup {"search"} \X {"prs", "issues", "repos", "code", "commits"}
    \cup {<<"browse">>, <<"status">>}

WritePath ==
         {"auth"} \X {"login", "refresh", "logout", "switch", "setup-git"}
    \cup {"repo"} \X {"clone", "create", "delete", "fork", "edit", "sync", "archive",
           "unarchive", "rename", "set-default", "add-remote", "pin", "unpin",
           "edit-default"}
    \cup {"pr"} \X {"create", "merge", "close", "reopen", "edit", "review", "comment",
           "checkout", "ready", "lock", "unlock", "update-branch"}
    \cup {"issue"} \X {"create", "close", "reopen", "edit", "comment", "lock",
           "unlock", "transfer", "pin", "unpin", "delete", "develop"}
    \cup {"gist"} \X {"create", "edit", "delete", "clone", "rename"}
    \cup {"release"} \X {"create", "edit", "delete", "upload", "delete-asset"}
    \cup {"secret", "variable"} \X {"set", "delete"}
    \cup {"workflow"} \X {"run", "enable", "disable"}
    \cup {"run"} \X {"cancel", "rerun", "delete"}
    \cup {"cache"} \X {"delete"}
    \cup {"ssh-key", "gpg-key"} \X {"add", "delete"}
    \cup {"project"} \X {"create", "edit", "delete", "close", "link", "unlink"}
    \cup {"label"} \X {"create", "edit", "delete", "clone"}
    \cup {"extension"} \X {"install", "remove", "upgrade", "create"}
    \cup {"config"} \X {"set", "clear-cache"}
    \cup {"alias"} \X {"set", "delete", "import"}
    \cup {"codespace"} \X {"create", "delete", "stop", "ssh", "code", "edit",
           "rebuild"}
    \cup {<<"auth", "git-credential", "store">>, <<"auth", "git-credential", "erase">>}

SecretPath ==
         {"auth"} \X {"token", "status"}
    \cup {<<"api">>, <<"auth", "git-credential", "get">>, <<"codespace", "ports",
           "forward">>}

Path == ReadPath \cup WritePath \cup SecretPath
table == [p \in Path |-> IF p \in ReadPath THEN "read"
                        ELSE IF p \in WritePath THEN "write" ELSE "secret-reveal"]

\* A word of the table does not start with "-".
ASSUME FlagAssumption == \A p \in Path : \A n \in 1..Len(p) : p[n] \notin Flag

-----------------------------------------------------------------------------
(* Classify                                                                  *)

\* The length of the longest in a set of prefixes.
Longest(lengths) == CHOOSE n \in lengths : \A k \in lengths : k <= n
Shortest(lengths) == CHOOSE n \in lengths : \A k \in lengths : k >= n

\* The arguments before the first flag.
nonFlagTokensAll(as) == SelectSeq(as, LAMBDA a : a \notin Flag)              \* mutant
nonFlagTokens(as) ==
    SubSeq(as, 1, Longest({n \in 0..Len(as) : \A i \in 1..n : as[i] \notin Flag}))

hasFlagLast(as, flag) == as[Len(as)] = flag                                 \* mutant
hasFlag(as, flag) == \E i \in 1..Len(as) : as[i] = flag

applyFlagOverrides(path, as, base) ==
    IF \/ path = <<"auth", "status">>
       \/ path = <<"run", "view">> /\ (hasFlag(as, "--log") \/ hasFlag(as, "--log-failed"))
    THEN "secret-reveal"
    ELSE base

ClassifyShortest(as) ==                                                     \* mutant
    LET tokens == nonFlagTokens(as)
        lengths == {n \in 1..3 : n <= Len(tokens) /\ SubSeq(tokens, 1, n) \in Path}
        path == SubSeq(tokens, 1, Shortest(lengths))
    IN  IF lengths = {} THEN "unknown" ELSE applyFlagOverrides(path, as, table[path])
Classify(as) ==
    LET tokens == nonFlagTokens(as)
        lengths == {n \in 1..3 : n <= Len(tokens) /\ SubSeq(tokens, 1, n) \in Path}
        path == SubSeq(tokens, 1, Longest(lengths))
    IN  IF lengths = {} THEN "unknown" ELSE applyFlagOverrides(path, as, table[path])

\* The shim knows the commands of gh only.
class(t, as) == IF t = "gh" THEN Classify(as) ELSE "unknown"

-----------------------------------------------------------------------------
(* Command lines: the words of a path, an operand or a flag in any place     *)

Continuing(as) == {p[Len(as) + 1] : p \in {q \in Path : /\ Len(q) > Len(as)
                                                      /\ SubSeq(q, 1, Len(as)) = as}}

LineInit == tool \in {"gh", "aws"} /\ args = <<>>
Spell(word) == args' = Append(args, word) /\ UNCHANGED tool
LineNext == /\ Len(args) < MaxArgs
        /\ \E word \in Continuing(args) \cup Operand \cup Flag : Spell(word)
LineSpec == LineInit /\ [][LineNext]_<<tool, args>>

-----------------------------------------------------------------------------
Starts(as, p) == Len(p) <= Len(as) /\ SubSeq(as, 1, Len(p)) = p

\* The command lines that print a secret, by the comments and tests of
\* ghclassify: a command, or a command and a flag wherever it stands. The flags
\* are those the code spells out; gh takes --log=true too, see LogHowever.
Reveals(as) ==
    \/ \E p \in {<<"auth", "token">>, <<"auth", "status">>, <<"auth", "git-credential", "get">>,
                <<"codespace", "ports", "forward">>, <<"api">>} : Starts(as, p)
    \/ Starts(as, <<"run", "view">>) /\ \E i \in 3..Len(as) : as[i] \in {"--log", "--log-failed"}

\* What gh's subcommands are called that change something, on GitHub, in the local
\* install or in a checkout, whichever noun they are said of.
ChangingVerb ==
    {"add", "add-remote", "archive", "cancel", "checkout", "clear-cache", "clone", "close",
     "comment", "create", "delete", "delete-asset", "develop", "disable", "edit",
     "edit-default", "enable", "fork", "import", "install", "link", "lock", "login",
     "logout", "merge", "pin", "ready", "rebuild", "refresh", "remove", "rename", "reopen",
     "rerun", "review", "set", "set-default", "setup-git", "ssh", "stop", "switch", "sync",
     "transfer", "unarchive", "unlink", "unlock", "unpin", "update-branch", "upgrade",
     "upload"}

\* The command lines that change something by their second word, or by what they
\* have git's helper do. "browse" and "status" take no subcommand. A third word
\* below another noun is not looked at: see DeployKeyOverridden.
Changes(as) ==
    \/ Len(as) > 1 /\ as[1] \notin {"browse", "status"} /\ as[2] \in ChangingVerb
    \/ \E p \in {<<"workflow", "run">>, <<"codespace", "code">>,
                <<"auth", "git-credential", "store">>, <<"auth", "git-credential", "erase">>} :
          Starts(as, p)

\* No level short of Full runs, unasked, a command line that prints a secret, or
\* one that is no command of the table; and Read runs none whose verb changes
\* something. Only the verb is meant: "repo deploy-key add" does run at Read.
\* (Classify and Decide; shimexec.go:48)
UnaskedIsHarmless ==
    \A level \in Level \ {"Full"} :
        Decide(level, class(tool, args)) = "auto-allow" =>
            /\ tool = "gh" /\ ~Reveals(args)
            /\ \E p \in Path : Starts(args, p)
            /\ level = "Read" => ~Changes(args)

\* A longer command line is never of a less privileged class than one it
\* starts with, unless that was no command yet: what a human or a session grant
\* let through stays within the class it was put as. (the order of table, Classify)
ClassOnlyRises ==
    [][class(tool, args) # "unknown" =>
          class(tool, args)' # "unknown" /\ classCoveredBy(class(tool, args), class(tool, args)')]_args

\* Once a flag is given, the subcommand is settled: only printing a log changes
\* its class, and no operand or later flag makes a command of what was none.
\* (nonFlagTokens, applyFlagOverrides)
FlagEndsThePath ==
    [][(\E i \in 1..Len(args) : args[i] \in Flag) /\ class(tool, args)' # class(tool, args) =>
          class(tool, args) # "unknown" /\ args[1] = "run" /\ class(tool, args)' = "secret-reveal"]_args

\* What the comment beside "repo deploy-key" says, and a run refutes: its add and
\* delete are not read.
DeployKeyOverridden ==
    \A verb \in {"add", "delete"} :
        tool = "gh" /\ Starts(args, <<"repo", "deploy-key", verb>>) => class(tool, args) # "read"

\* By hand, and refuted: a log is not read however gh is told to print it. hasFlag
\* compares whole words, and gh takes --log=true for --log. (ghclassify.go:269)
LogHowever ==
    tool = "gh" /\ Starts(args, <<"run", "view">>)
        /\ (\E i \in 3..Len(args) : args[i] = "--log=true") => class(tool, args) # "read"
=============================================================================
