----------------------------- MODULE MountPolicy -----------------------------
(***************************************************************************)
(* Which directories, files and sockets of the host a sandbox gets         *)
(* (celily/src/validate.rs, and resolve_context of celily/src/context.rs   *)
(* that calls it), over several sessions: what a sandbox may write in one  *)
(* session is what the checks of the next one find.                        *)
(*                                                                         *)
(* A path is a sequence of components, the last of which is empty when it  *)
(* is written with a slash at its end. A place is a path that goes through *)
(* no symlink: where things are. The places are fixed, and so is what is   *)
(* there; what changes is which of them are replaced by a symlink. The     *)
(* owner of the host has put some symlinks (the layout); a sandbox may     *)
(* replace whatever is below a directory it has read-write.                *)
(*                                                                         *)
(* LXD follows a path it is given again: a mount's when the instance is    *)
(* created, a socket's on every connection.                                *)
(*                                                                         *)
(* Sessions follow one another, any number of them. A sandbox that is      *)
(* still up can swap an entry between a check of the next session and      *)
(* LXD's use of the path: canonicalize_in_home names this limit, and the   *)
(* model stops at it.                                                      *)
(***************************************************************************)
EXTENDS Naturals, SequencesExt, FiniteSets

CONSTANTS
  NoPath,          \* does not resolve; no socket asked for
  MaxMounts,       \* bound on a session's mounts besides the project's
  MaxLinks,        \* bound on the symlinks of sandboxes at one time
  Home,            \* home_canon
  Config,          \* config_dir
  Runtime,         \* $XDG_RUNTIME_DIR
  Project,         \* cwd, which current_dir gives as a place
  Dirs, Files, Sockets,   \* the places
  Layouts,         \* the symlinks the owner may have: place |-> path
  Written,         \* mounts as a user writes them
  WrittenSockets,  \* sockets as a user writes them
  Allowlists,      \* allowed_dirs and allowed_files, as a user writes them
  Targets          \* where a sandbox's symlinks may lead

Places == Dirs \cup Files \cup Sockets

Path == Seq(STRING)

Local == Home \o <<"local">>
Share == Local \o <<"share">>

\* ~/.gnupg is left out: it is treated as ~/.ssh is.
ForbiddenDirs == {Config \o <<"celily">>, Home \o <<"ssh">>, Share \o <<"keyrings">>}

Under(path, parent) == IsPrefix(parent, path)   \* is_under_or_eq

\* The components of p that are not plain entries, given what links there are.
Turns(links, p) ==
  {i \in DOMAIN p : p[i] = ".." \/ SubSeq(p, 1, i) \in DOMAIN links}

\* What these links make of directory d: it is where its name says, or behind
\* one symlink of that name.
Direct(links, d) ==
  /\ Turns(links, d) \subseteq {Len(d)}
  /\ d \in DOMAIN links => links[d] \in Places /\ Turns(links, links[d]) = {}
  /\ d \notin DOMAIN links => d \in Places

\* A path that leads to the home directory, or nowhere near it.
LeadsOutside(links, p) ==
  p \in Path /\ Turns(links, p) = {} /\ (p = Home \/ ~Under(p, Home))

\* The places are a tree, and the configuration is right below the home
\* directory or outside of it.
ASSUME MountAssumption ==
  /\ MaxMounts \in Nat /\ MaxLinks \in Nat /\ NoPath \notin Places
  /\ Dirs \cap Files = {} /\ Dirs \cap Sockets = {} /\ Files \cap Sockets = {}
  /\ Places \cup Written \cup ForbiddenDirs \cup {Home, Config, Local, Share, Project}
       \subseteq Path
  /\ \A p \in Places \ {<<>>} : Front(p) \in Places
  /\ Under(Config, Home) => Len(Config) <= Len(Home) + 1

\* The owner has each forbidden directory directly, and a symlink outside of
\* the home directory leads to that directory or stays outside of it, directly
\* too (canonicalize_in_home: "/home -> /var/home").
ASSUME OwnerAssumption ==
  \A l \in Layouts :
    /\ \A d \in ForbiddenDirs : Direct(l, d)
    /\ \A q \in DOMAIN l :
         /\ q \in Path \ {<<>>} /\ Front(q) \in Places
         /\ Under(Front(q), Home) \/ LeadsOutside(l, l[q])

VARIABLES
  layout,    \* the owner's symlinks: place |-> path
  link,      \* the symlinks now
  allowed,   \* allowed_dirs and allowed_files, as written
  pc,        \* "idle", "allow", "mounts", "create", "up"
  worktree,  \* is the session one of a worktree?
  mounts,    \* the session's mounts, [source, rw]; the checked ones are canonical
  checked,   \* how many of them have been checked
  policy,    \* the canonical allowlists and the forbidden places
  socket,    \* the proxied socket, NoPath if none
  attached,  \* what LXD has mounted, [place, rw]
  reached    \* history: the sockets that connections of the session have reached

config == <<layout, allowed>>
asks   == <<worktree, mounts, checked, policy, socket>>
use    == <<attached, reached>>
vars   == <<config, link, pc, asks, use>>

-----------------------------------------------------------------------------
\* Paths, as the kernel resolves them

NextTurn(links, p) == CHOOSE i \in Turns(links, p) : \A j \in Turns(links, p) : i <= j

FollowOne(links, p) ==
  IF Turns(links, p) = {} THEN p
  ELSE LET i    == NextTurn(links, p)
           rest == SubSeq(p, i + 1, Len(p))
       IN  IF p[i] = ".." THEN SubSeq(p, 1, i - 2) \o rest
                          ELSE links[SubSeq(p, 1, i)] \o rest

FollowTwo(links, p) == FollowOne(links, FollowOne(links, p))

\* The place a path without a slash at its end leads to, if there is anything.
\* After more than six turns the kernel gives up on a loop.
Resolve(links, p) ==
  LET q == FollowTwo(links, FollowTwo(links, FollowTwo(links, p)))
  IN  IF q \in Places /\ Turns(links, q) = {} THEN q ELSE NoPath

\* Is p written with a slash at its end?
Slashed(p) == Len(p) > 1 /\ Last(p) = ""

\* canonicalize: the place a path leads to. With a slash at its end, that has to
\* be a directory, and its last name is followed.
Canonicalize(links, p) ==
  LET place == Resolve(links, Front(p))
  IN  IF ~Slashed(p) THEN Resolve(links, p)
      ELSE IF place \in Dirs THEN place ELSE NoPath

IsSymlink(links, p) ==
  /\ p # <<>> /\ Resolve(links, Front(p)) # NoPath
  /\ Append(Resolve(links, Front(p)), Last(p)) \in DOMAIN links

\* absolute(p).ancestors(), as the lengths of the paths whose last name the walk
\* looks at. With a slash at the end of p, the first is p itself, whose last name
\* is followed and so never a symlink; the next is already the parent.
Ancestors(p) == IF Slashed(p) THEN 1 .. Len(p) - 2 ELSE 1 .. Len(p)

\* Does p go through a symlink in the home directory, as far as the walk sees?
ThroughSymlink(links, p) ==
  \E n \in Ancestors(p) :
    /\ IsSymlink(links, SubSeq(p, 1, n))
    /\ Under(Resolve(links, SubSeq(p, 1, n - 1)), Home)

\* Mutant of CanonicalizeInHome: symlinks are followed anywhere.
CanonicalizeAnywhere(p) == Canonicalize(link, p)

\* canonicalize_in_home; NoPath when it refuses.
CanonicalizeInHome(p) ==
  IF ThroughSymlink(link, p) THEN NoPath ELSE Canonicalize(link, p)

\* What the owner lists leads somewhere, and so does what may be asked for of
\* sockets, through no symlink of the owner's in the home directory. A slash
\* ends a name: what is before that name leads somewhere too. With a slash at
\* its end, a path leads to no socket.
ASSUME ListsAssumption ==
  \A l \in Layouts :
    /\ \A a \in Allowlists : \A p \in a.dirs \cup a.files :
         /\ p \in Path /\ Canonicalize(l, p) # NoPath
         /\ Slashed(p) => Resolve(l, Front(Front(p))) # NoPath
    /\ \A s \in WrittenSockets :
         s \in Path /\ (~Slashed(s) => Resolve(l, s) # NoPath /\ ~ThroughSymlink(l, s))

-----------------------------------------------------------------------------
\* The checks

\* Forbidden::under: nothing is forbidden where nothing is.
UnderForbidden(p) == {Resolve(link, p)} \ {NoPath}

ForbiddenMounts ==
  [exact   |-> {Home, Config} \cup UnderForbidden(Local) \cup UnderForbidden(Share),
   subtree |-> UNION {UnderForbidden(d) : d \in ForbiddenDirs}]

ForbiddenSockets ==
  [exact   |-> UnderForbidden(Runtime \o <<"bus">>),
   subtree |-> UnderForbidden(Runtime \o <<"gnupg">>)]

\* Mutant of Passes: what contains a forbidden place is let through.
PassesContaining(forbidden, place) ==
  /\ place \notin forbidden.exact
  /\ \A f \in forbidden.subtree : ~Under(place, f)

\* Forbidden::check, for the whole list.
Passes(forbidden, place) ==
  /\ place \notin forbidden.exact
  /\ \A f \in forbidden.subtree : ~Under(place, f) /\ ~Under(f, place)

\* validate_mount_source, once its path is canonical.
MountAllowed(place) ==
  /\ policy.dirs \cup policy.files # {}
  /\ place # NoPath
  /\ Passes(policy.forbidden, place)
  /\ Under(place, Home)
  /\ \/ place \in Dirs /\ place \in policy.dirs
     \/ place \in Files /\ place \in policy.files

\* Mutant of OutOfReach: only the socket itself may not be mounted.
NotMounted(place) == \A k \in DOMAIN mounts : mounts[k].source # place

\* No read-write mount holds the socket.
OutOfReach(place) ==
  \A k \in DOMAIN mounts : mounts[k].rw => ~Under(place, mounts[k].source)

\* validate_proxy_connect, once its path is canonical.
SocketAllowed(place) ==
  /\ place # NoPath
  /\ Passes(ForbiddenSockets, place)
  /\ Under(place, Home) \/ Under(place, Runtime)
  /\ OutOfReach(place)

-----------------------------------------------------------------------------
\* A session, from its allowlists to its end

NoPolicy == [dirs |-> {}, files |-> {}, forbidden |-> [exact |-> {}, subtree |-> {}]]

Init ==
  /\ layout \in Layouts /\ link = layout
  /\ allowed \in Allowlists
  /\ pc = "idle"
  /\ worktree = FALSE /\ mounts = <<>> /\ checked = 0 /\ policy = NoPolicy /\ socket = NoPath
  /\ attached = {} /\ reached = {}

\* The project's own mount, which goes first, if the command line and the
\* profile come to asked for it, and to rw for how. A worktree always has it.
ProjectMount(inWorktree, asked, rw) ==
  IF inWorktree \/ asked THEN <<[source |-> Project, rw |-> ~inWorktree /\ rw]>> ELSE <<>>

\* The command line and the profile say what the session is to have.
Launch ==
  /\ pc = "idle" /\ pc' = "allow"
  /\ worktree' \in BOOLEAN
  /\ \E asked, rw \in BOOLEAN, n \in 0 .. MaxMounts :
       \E others \in [1 .. n -> [source : Written, rw : BOOLEAN]] :
         mounts' = ProjectMount(worktree', asked, rw) \o others
  /\ socket' \in WrittenSockets \cup {NoPath}
  /\ UNCHANGED <<config, link, checked, policy, use>>

\* The process ends, and its instance is gone; what was written stays.
Exit ==
  /\ pc' = "idle"
  /\ worktree' = FALSE /\ mounts' = <<>> /\ checked' = 0 /\ policy' = NoPolicy /\ socket' = NoPath
  /\ attached' = {} /\ reached' = {}
  /\ UNCHANGED <<config, link>>

\* canonicalize_allowlist: a missing entry is skipped, one that goes through a
\* symlink is an error.
Listed(paths) == {p \in paths : Canonicalize(link, p) # NoPath}

Canonical(paths) == {CanonicalizeInHome(p) : p \in Listed(paths)}

ReadAllowlists ==
  LET dirs == Canonical(allowed.dirs)  files == Canonical(allowed.files)
  IN  /\ pc = "allow"
      /\ \/ NoPath \in dirs \cup files /\ Exit
         \/ /\ NoPath \notin dirs \cup files
            /\ pc' = "mounts"
            /\ policy' = [dirs |-> dirs, files |-> files, forbidden |-> ForbiddenMounts]
            /\ UNCHANGED <<config, link, worktree, mounts, checked, socket, use>>

CheckMount ==
  LET k     == checked + 1
      place == CanonicalizeInHome(mounts[k].source)
  IN  /\ pc = "mounts" /\ checked < Len(mounts)
      /\ \/ ~MountAllowed(place) /\ Exit
         \/ /\ MountAllowed(place)
            /\ mounts' = [mounts EXCEPT ![k].source = place]
            /\ checked' = k
            /\ UNCHANGED <<config, link, pc, worktree, policy, socket, use>>

CheckSocket ==
  LET place == CanonicalizeInHome(socket)
  IN  /\ pc = "mounts" /\ checked = Len(mounts) /\ socket # NoPath
      /\ \/ ~SocketAllowed(place) /\ Exit
         \/ /\ SocketAllowed(place)
            /\ pc' = "create" /\ socket' = place
            /\ UNCHANGED <<config, link, worktree, mounts, checked, policy, use>>

NoSocket ==
  /\ pc = "mounts" /\ checked = Len(mounts) /\ socket = NoPath
  /\ pc' = "create"
  /\ UNCHANGED <<config, link, asks, use>>

\* LXD mounts the sources, following each as it is now.
Create ==
  /\ pc = "create" /\ pc' = "up"
  /\ attached' = {[place |-> Resolve(link, mounts[k].source), rw |-> mounts[k].rw] :
                    k \in DOMAIN mounts}
  /\ UNCHANGED <<config, link, asks, reached>>

End == pc = "up" /\ Exit

-----------------------------------------------------------------------------
\* While it is up

\* A process in the sandbox uses the proxied socket. Nothing else listens.
Connect ==
  /\ pc = "up" /\ socket # NoPath /\ Resolve(link, socket) \in Sockets
  /\ reached' = reached \cup {Resolve(link, socket)}
  /\ UNCHANGED <<config, link, pc, asks, attached>>

\* The sandbox replaces an entry below a read-write mount by a symlink, or
\* puts back what was there.
Writable(place) ==
  /\ pc = "up" /\ Resolve(link, Front(place)) = Front(place)
  /\ \E m \in attached : m.rw /\ m.place # place /\ Under(place, m.place)

Plant ==
  /\ \E place \in Places \ {<<>>}, target \in Targets :
       /\ Writable(place)
       /\ link' = [p \in DOMAIN link \cup {place} |-> IF p = place THEN target ELSE link[p]]
  /\ Cardinality({p \in DOMAIN link' : p \in DOMAIN layout => link'[p] # layout[p]})
       <= MaxLinks
  /\ UNCHANGED <<config, pc, asks, use>>

Restore ==
  /\ \E place \in DOMAIN link :
       /\ Writable(place)
       /\ link' = [p \in DOMAIN link \ {place} |-> link[p]]
  /\ UNCHANGED <<config, pc, asks, use>>

Next ==
  \/ Launch \/ ReadAllowlists \/ CheckMount \/ CheckSocket \/ NoSocket \/ Create \/ End
  \/ Connect \/ Plant \/ Restore

Spec == Init /\ [][Next]_vars

-----------------------------------------------------------------------------
\* What is promised

\* Where a path leads as the owner laid it out.
Meant(p) == Canonicalize(layout, p)

\* A place that may be mounted, for all that is forbidden.
MayMount(m) ==
  /\ m \in Places /\ Under(m, Home) /\ m \notin {Home, Config, Local, Share}
  /\ \A d \in ForbiddenDirs : ~Under(m, Meant(d)) /\ ~Under(Meant(d), m)

\* A sandbox may touch p: it is in a directory that may be mounted.
Exposed(p) == \E m \in Places : MayMount(m) /\ m # p /\ Under(p, m)

\* p is written with a slash at its end, and the last name of p is a symlink of
\* the owner's in the home directory, or a sandbox may make it one.
MayBeFollowed(p) ==
  LET name == Front(p)
      dir  == Resolve(layout, Front(name))
      last == Append(dir, Last(name))
  IN  /\ Slashed(p)
      /\ Under(dir, Home)
      /\ last \in DOMAIN layout \/ Exposed(last)

\* What is mounted is what the owner listed, where the owner put it: no
\* symlink that a sandbox left behind makes a listed path, or a requested one,
\* lead elsewhere. The exception is a listed directory written with a slash at
\* its end, whose last name the walk of canonicalize_in_home does not look at
\* (validate.rs:92-99): where a sandbox may replace it, it may lead to any
\* directory that is not forbidden.
MountsAsListed ==
  \A m \in attached :
    \/ \E p \in allowed.dirs \cup allowed.files : m.place = Meant(p)
    \/ m.place \in Dirs /\ \E p \in allowed.dirs : MayBeFollowed(p)

\* canonicalize_in_home, without that exception: a sandbox "could swap one of
\* its entries for a symlink, and the next run would follow it out of the mount,
\* or into an allowlist entry" (validate.rs:82-84), which it says it refuses.
ListedOnly ==
  \A m \in attached : \E p \in allowed.dirs \cup allowed.files : m.place = Meant(p)

\* No mount holds, or lies in, the directories that are never to be mounted,
\* wherever the owner keeps them (Forbidden: "a symlinked layout can put it
\* under a directory that is not forbidden itself").
NothingForbidden ==
  \A m \in attached :
    \A d \in ForbiddenDirs : ~Under(m.place, Meant(d)) /\ ~Under(Meant(d), m.place)

\* Throughout a session the proxied socket is the one that was asked for, where
\* the owner put it: no symlink planted before or during the session diverts
\* it (validate_proxy_connect: "hand it the canonical path this returns").
SocketSettled ==
  reached \subseteq {socket} \cap {Meant(s) : s \in WrittenSockets}

\* resolve_context: "Worktree mode never mounts .git read-write". The manual:
\* "the sandbox cannot write to the host repository".
GitNeverWritable ==
  worktree => ~\E m \in attached : m.rw /\ Under(Project, m.place)
=============================================================================
