-------------------------- MODULE MCWorktreeSession --------------------------
(***************************************************************************)
(* A finite instance of WorktreeSession. Runs are interchangeable.         *)
(*                                                                         *)
(* The transport's settings are varied in repositories where the run then  *)
(* ends for want of an identity; the whole of a session is followed in     *)
(* one setup only.                                                         *)
(***************************************************************************)
EXTENDS WorktreeSession, TLC

CONSTANT NoneValue

N == NoneValue

RunSymmetry == Permutations(Runs)

MCLower == [user |-> "user", User |-> "user", always |-> "always", Always |-> "always",
            never |-> "never", yes |-> "yes"]

Entry(key, scope, value) == [key |-> key, scope |-> scope, value |-> value]

Ext(scope, value) == Entry("protocol.ext.allow", scope, value)
Allow(scope, value) == Entry("protocol.allow", scope, value)

NoEnv == [config |-> <<>>, pass |-> <<>>, cli |-> <<>>]

Base == [dotgit |-> "directory", gitmodules |-> FALSE, commits |-> TRUE, validBranch |-> TRUE,
         readable |-> TRUE, config |-> <<Ext("local", "user")>>, allowProtocol |-> N,
         identity |-> [cli |-> N, worktree |-> N, git |-> "ann"], root |-> FALSE, env |-> NoEnv]

\* git reads the system's settings first, the worktree's and `git -c` last.
Rank == [system |-> 1, global |-> 2, local |-> 3, worktree |-> 4, command |-> 5]

Values == {"user", "User", "always", "Always", "never", "yes"}

Entries == {Entry(k, s, v) : k \in {"protocol.ext.allow", "protocol.allow"},
                             s \in {"global", "local", "command"}, v \in Values}

Configs ==
  {<<>>} \cup {<<e>> : e \in Entries}
  \cup {<<e, f>> : e, f \in Entries}

InOrder(c) == \A i, j \in DOMAIN c : i < j => Rank[c[i].scope] <= Rank[c[j].scope]

Bare == [Base EXCEPT !.identity.git = N]

Greedy == [HOME |-> "/elsewhere", CELILY_WORKTREE_NAME |-> "other",
           CELILY_WORKTREE_BRANCH |-> "main", GIT_AUTHOR_NAME |-> "eve", HTTP_PROXY |-> "none"]

MCSetups ==
  {[Bare EXCEPT !.config = c] : c \in {d \in Configs : InOrder(d)}}
  \cup {[Bare EXCEPT !.allowProtocol = a] : a \in SUBSET {"ext", "https"}}
  \cup {[Base EXCEPT !.dotgit = d] : d \in {"missing", "file", "symlink"}}
  \cup {[Base EXCEPT !.gitmodules = TRUE], [Base EXCEPT !.commits = FALSE],
        [Base EXCEPT !.validBranch = FALSE], [Base EXCEPT !.readable = FALSE]}
  \cup {[Base EXCEPT !.root = TRUE, !.identity.worktree = "bob",
                     !.env = [config |-> Greedy, pass |-> Greedy, cli |-> Greedy]]}
=============================================================================
