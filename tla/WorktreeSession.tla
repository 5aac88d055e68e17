--------------------------- MODULE WorktreeSession ---------------------------
(***************************************************************************)
(* A run of celily in worktree mode, from the checks on the host to its    *)
(* end: what main.rs does around the remote of SandboxRemote, the checks   *)
(* of validate.rs, the environment the commands get (context.rs, and exec  *)
(* of the LXD backend) and share/worktree-init.sh inside the instance.     *)
(* Runs of the same worktree name and the user share the host repository.  *)
(*                                                                         *)
(* A branch is the set of runs whose commits are on it; the commit checked *)
(* out on the host has none. git inside the instance does what it is asked *)
(* or fails, and the command only adds commits to its branch.              *)
(***************************************************************************)
EXTENDS SandboxRemote

CONSTANTS
  Setups,    \* repositories and configurations considered
  Lower,     \* value of a git setting |-> the value in lower case
  None       \* unset, absent

Scopes == {"system", "global", "local", "worktree", "command"}

ASSUME SessionAssumption ==
  /\ \A commits \in SUBSET Runs : commits # None
  /\ \A value \in {"user", "always", "never"} : Lower[value] = value
  /\ \A s \in Setups :
       s.config \in Seq([key : STRING, scope : Scopes, value : DOMAIN Lower])

VARIABLES
  setup,     \* the repository, git's configuration and celily's
  phase,     \* run |-> where it is, next to pc
  branch,    \* the host's branch of the session, None if there is none
  clone,     \* run |-> the branch in its clone, None before there is one
  base,      \* history: run |-> the host's branch when the script looked at
             \* it, None if it had changed by the time it was cloned
  occupied   \* runs in whose instance the clone's place is taken

session == <<setup, phase, branch, clone, base, occupied>>
sessionVars == <<vars, session>>

Branch == (SUBSET Runs) \cup {None}

\* Before the remote.
Early == {"check", "refused", "failed", "prepare"}

Phase == Early \cup {"register",                                  \* SandboxRemote's register
                    "clone branch", "clone head", "switch",      \* the script
                    "command", "over"}

-----------------------------------------------------------------------------
\* git's ext transport

\* `git config --get-all`: where a key has values, in the order git reads them.
ConfigEntries(config, key) == {i \in DOMAIN config : config[i].key = key}

\* The last value of protocol.ext.allow in these scopes, or of protocol.allow
\* if there is none. At most one.
LookUp(config, scopes) ==
  LET In(key) == {i \in ConfigEntries(config, key) : config[i].scope \in scopes}
      Last(set) == {config[i] : i \in {j \in set : \A k \in set : k <= j}}
      ext == In("protocol.ext.allow")
  IN  Last(IF ext # {} THEN ext ELSE In("protocol.allow"))

\* Scopes a submodule's clone reads too.
Shared == Scopes \ {"local", "worktree"}

\* Mutant of ExtPolicy: only this repository's view is looked at.
ExtPolicyHere ==
  IF setup.allowProtocol # None
    THEN IF "ext" \in setup.allowProtocol THEN {"always"} ELSE {"never"}
    ELSE {e.value : e \in LookUp(setup.config, Scopes)}

\* ext_policy; empty for git's default, never.
ExtPolicy ==
  LET elsewhere == {e \in LookUp(setup.config, Shared) : Lower[e.value] = "always"}
  IN  IF setup.allowProtocol # None
        THEN IF "ext" \in setup.allowProtocol THEN {"always"} ELSE {"never"}
        ELSE {e.value : e \in IF elsewhere # {} THEN elsewhere ELSE LookUp(setup.config, Scopes)}

\* check_ext_transport_allowed. An error to read the configuration refuses.
ExtAllowed == setup.readable /\ \E policy \in ExtPolicy : Lower[policy] = "user"

-----------------------------------------------------------------------------
\* The checks on the host

\* validate_worktree_preconditions, without the transport.
Supported ==
  /\ setup.dotgit = "directory"       \* not missing, a file or a symlink
  /\ ~setup.gitmodules
  /\ setup.commits                    \* git rev-parse HEAD
  /\ setup.validBranch                \* git check-ref-format --branch

First(values) ==
  LET set == SelectSeq(values, LAMBDA v : v # None)
  IN  IF set = <<>> THEN None ELSE set[1]

\* resolve_git_identity: the flag, the [worktree] table, git's configuration.
Identity == First(<<setup.identity.cli, setup.identity.worktree, setup.identity.git>>)

-----------------------------------------------------------------------------
\* The environment of the commands

Name == "feature"
BranchName == "celily/feature"

ContainerHome == IF setup.root THEN "/root" ELSE "/home/dev"

\* The variables of env, those of more added or in their place.
Extend(env, more) ==
  [n \in DOMAIN env \cup DOMAIN more |-> IF n \in DOMAIN more THEN more[n] ELSE env[n]]

\* resolve_context: [env], then the host's variables passed on, then --env.
UserEnv == Extend(Extend(setup.env.config, setup.env.pass), setup.env.cli)

\* run, for the command of a worktree session.
WorktreeEnv ==
  Extend(UserEnv,
         [GIT_AUTHOR_NAME |-> Identity, GIT_COMMITTER_NAME |-> Identity,
          CELILY_WORKTREE_BRANCH |-> BranchName, CELILY_WORKTREE_NAME |-> Name])

\* Mutant of ExecEnv: what the user has set goes last.
ExecEnvUserLast(env) == Extend([HOME |-> ContainerHome, HTTP_PROXY |-> "proxy"], env)

\* LxcBackend::exec gives HOME and the proxy after the rest; LXD takes the last
\* value of a variable.
ExecEnv(env) == Extend(env, [HOME |-> ContainerHome, HTTP_PROXY |-> "proxy"])

\* Where the script clones to, by its environment, and the path that the
\* remote's URL hands to `git upload-pack`.
ScriptEnv == ExecEnv(WorktreeEnv)
ClonePath == <<ScriptEnv.HOME, ScriptEnv.CELILY_WORKTREE_NAME>>
RemotePath == <<ContainerHome, Name>>

-----------------------------------------------------------------------------
SessionInit ==
  /\ Init
  /\ setup \in Setups
  /\ phase = [r \in Runs |-> "check"]
  /\ branch \in {None, {}}
  /\ clone = [r \in Runs |-> None]
  /\ base = clone
  /\ occupied = {}

Enter(r, from, to) == phase[r] = from /\ phase' = [phase EXCEPT ![r] = to]

\* A run that ends before the remote leaves no trace in the repository.
Before(r) ==
  /\ pc[r] = "look"
  /\ UNCHANGED <<vars, setup, branch, clone, base>>

Check(r) ==
  /\ Before(r)
  /\ \/ ~(Supported /\ ExtAllowed) /\ Enter(r, "check", "refused")
     \/ Supported /\ ExtAllowed /\ Identity = None /\ Enter(r, "check", "failed")
     \/ Supported /\ ExtAllowed /\ Identity # None /\ Enter(r, "check", "prepare")
  /\ UNCHANGED occupied

\* The secret provider, Lifecycle's launch and the pre-run scripts, the first
\* that fails ending the run. The scripts may leave something where the clone
\* is to be.
Prepare(r) ==
  /\ Before(r)
  /\ \/ Enter(r, "prepare", "failed") /\ UNCHANGED occupied
     \/ Enter(r, "prepare", "register") /\ occupied' \in {occupied, occupied \cup {r}}

Register(r) ==
  /\ phase[r] = "register"
  /\ Look(r) \/ Replace(r) \/ Write(r)
  /\ UNCHANGED <<raced, session>>

-----------------------------------------------------------------------------
\* worktree-init.sh, under `set -e`: a command that fails ends it

Script(r) == pc[r] = "exec" /\ UNCHANGED <<vars, setup, branch, occupied>>

\* Mutant of ShowRef: the branch is always made from HEAD.
ShowRefSkipped(r) ==
  /\ Script(r)
  /\ Enter(r, "register", "clone head")
  /\ base' = [base EXCEPT ![r] = branch]
  /\ UNCHANGED clone

\* git show-ref --verify refs/heads/<branch>, in the project.
ShowRef(r) ==
  /\ Script(r)
  /\ Enter(r, "register", IF branch # None THEN "clone branch" ELSE "clone head")
  /\ base' = [base EXCEPT ![r] = branch]
  /\ UNCHANGED clone

ScriptFails(r) ==
  /\ Script(r)
  /\ \E step \in {"clone branch", "clone head", "switch"} : Enter(r, step, "over")
  /\ UNCHANGED <<clone, base>>

Cloned(r) == base' = [base EXCEPT ![r] = IF branch = @ THEN @ ELSE None]

\* Mutant of CloneBranch: without -e, the command follows a clone that failed.
CloneBranchAnyway(r) ==
  /\ Script(r)
  /\ Enter(r, "clone branch", "command")
  /\ clone' = [clone EXCEPT ![r] = IF r \in occupied THEN None ELSE branch]
  /\ Cloned(r)

\* git clone --branch, which needs the branch, and room.
CloneBranch(r) ==
  /\ Script(r)
  /\ branch # None /\ r \notin occupied
  /\ Enter(r, "clone branch", "command")
  /\ clone' = [clone EXCEPT ![r] = branch]
  /\ Cloned(r)

\* git clone, and git switch --create from the HEAD of the clone.
CloneHead(r) ==
  /\ Script(r)
  /\ r \notin occupied
  /\ Enter(r, "clone head", "switch")
  /\ Cloned(r)
  /\ UNCHANGED clone

Switch(r) ==
  /\ Script(r)
  /\ Enter(r, "switch", "command")
  /\ clone' = [clone EXCEPT ![r] = {}]
  /\ UNCHANGED base

\* The command of the user commits, and ends.
Commit(r) ==
  /\ Script(r)
  /\ phase[r] = "command" /\ clone[r] # None
  /\ clone' = [clone EXCEPT ![r] = @ \cup {r}]
  /\ UNCHANGED <<phase, base>>

CommandEnds(r) ==
  /\ Script(r)
  /\ Enter(r, "command", "over")
  /\ UNCHANGED <<clone, base>>

\* When the run exits its instance goes, and the clone with it.
Unregister(r) ==
  /\ phase[r] = "over"
  /\ Finish(r) \/ LookAgain(r) \/ Remove(r)
  /\ \/ pc'[r] # "exited" /\ UNCHANGED <<clone, base, occupied>>
     \/ /\ pc'[r] = "exited"
        /\ clone' = [clone EXCEPT ![r] = None]
        /\ base' = [base EXCEPT ![r] = None]
        /\ occupied' = occupied \ {r}
  /\ UNCHANGED <<raced, setup, phase, branch>>

-----------------------------------------------------------------------------
\* The others

\* Before there is a remote this would be no different from a failure.
Killed(r) ==
  /\ phase[r] \notin Early
  /\ Kill(r)
  /\ UNCHANGED <<raced, session>>

\* `git fetch celily/<name>`: through the URL, from an instance that is there,
\* by the refspec, which forces.
Fetch(r) ==
  /\ url = r /\ "fetch" \in keys
  /\ pc[r] # "exited" /\ clone[r] # None /\ ClonePath = RemotePath
  /\ branch' = clone[r]
  /\ UNCHANGED <<vars, setup, phase, clone, base, occupied>>

\* `git branch -D celily/<name>`.
DeleteBranch ==
  /\ branch # None
  /\ branch' = None
  /\ UNCHANGED <<vars, setup, phase, clone, base, occupied>>

SessionEnded(r) == Ended(r) \/ phase[r] \in {"refused", "failed"}

SessionStep(r) ==
  \/ Check(r) \/ Prepare(r)
  \/ Register(r)
  \/ ShowRef(r) \/ ScriptFails(r) \/ CloneBranch(r) \/ CloneHead(r) \/ Switch(r)
  \/ Commit(r) \/ CommandEnds(r)
  \/ Unregister(r)

SessionNext ==
  \/ \E r \in Runs : SessionStep(r) \/ Killed(r) \/ Fetch(r)
  \/ UserEdits /\ UNCHANGED session
  \/ DeleteBranch
  \/ (\A r \in Runs : SessionEnded(r)) /\ UNCHANGED sessionVars

SessionSpec == SessionInit /\ [][SessionNext]_sessionVars
-----------------------------------------------------------------------------

SessionTypeOK ==
  /\ phase \in [Runs -> Phase]
  /\ branch \in Branch
  /\ clone \in [Runs -> Branch] /\ base \in [Runs -> Branch]
  /\ occupied \subseteq Runs

\* The inductive invariant behind CommandInClone and FetchedKept.
SessionInv ==
  /\ SessionTypeOK
  /\ \A r \in Runs :
       /\ phase[r] \notin {"check", "refused"} => Supported /\ ExtAllowed
       /\ phase[r] \in Early => pc[r] = "look"
       /\ phase[r] \in {"clone head", "switch"} => base[r] = None
       /\ phase[r] \notin {"command", "over"} => clone[r] = None
       /\ phase[r] = "command" => clone[r] # None
       /\ phase[r] \in {"switch", "command"} => r \notin occupied
       /\ clone[r] # None /\ base[r] # None => base[r] \subseteq clone[r]

\* The command of a session runs in its clone, on the session's branch, or not
\* at all: not in the read-only project, nor in what a pre-run script left in
\* the clone's place (set -e in worktree-init.sh).
CommandInClone ==
  \A r \in Runs : phase[r] = "command" => clone[r] # None /\ r \notin occupied

\* Whatever environment the user asks for, the clone is where the remote's URL
\* fetches from, on the branch that it fetches, and its commits have the
\* identity resolved on the host.
SessionAsMeant ==
  \A r \in Runs : phase[r] = "command" =>
    /\ ClonePath = RemotePath
    /\ ScriptEnv.CELILY_WORKTREE_BRANCH = BranchName
    /\ {ScriptEnv.GIT_AUTHOR_NAME, ScriptEnv.GIT_COMMITTER_NAME} =
         {First(<<setup.identity.cli, setup.identity.worktree, setup.identity.git>>)}

\* A fetch drops no commit that the host's branch had when the session was
\* cloned, such as those of earlier sessions, unless the branch changed
\* between the script's look at it and its clone.
FetchedKept ==
  [][\A r \in Runs :
       url = r /\ branch # None /\ branch' # None /\ clone[r] # None /\ base[r] # None
         => branch \cap base[r] \subseteq branch']_sessionVars

\* What git's transport policy is for a reader of these scopes, by git's own
\* rules: a URL it was given by the user, or one it found in a repository.
GitAllows(scopes, fromUser) ==
  LET Set(key) == {i \in DOMAIN setup.config :
                     setup.config[i].key = key /\ setup.config[i].scope \in scopes}
      key == IF Set("protocol.ext.allow") # {} THEN "protocol.ext.allow" ELSE "protocol.allow"
      Is(value) == \E i \in Set(key) :
                     /\ \A j \in Set(key) : j <= i
                     /\ Lower[setup.config[i].value] = value
  IN  IF setup.allowProtocol # None
        THEN "ext" \in setup.allowProtocol
        ELSE Is("always") \/ (Is("user") /\ fromUser)

TransportFit ==
  /\ GitAllows(Scopes, TRUE)
  /\ ~GitAllows(Scopes, FALSE) /\ ~GitAllows(Shared, FALSE)

\* A session starts only where git fetches from the ext URL the user names and
\* from none that it finds, in this repository or in a submodule's clone; and
\* no session is refused for its transport where that is so.
ExtPolicySound ==
  \A r \in Runs :
    /\ phase[r] \notin {"check", "refused"} => TransportFit
    /\ phase[r] = "refused" =>
         ~(Supported /\ setup.readable /\ TransportFit)
=============================================================================
