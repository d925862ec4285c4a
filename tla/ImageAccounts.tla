--------------------------- MODULE ImageAccounts ---------------------------
(* The users of a template in the image's /etc.                              *)
(*                                                                           *)
(* etc is [accounts, groups, files, links, keys, sudoers]: each account's    *)
(* [shell, home, shadow, maxAge, groups]; the groups; the files there are;   *)
(* the symbolic links among the homes and what they lead to; the authorized  *)
(* keys by home; and who may do all without a password.  A shadow entry is   *)
(* [locked, of]: a hash is "$6$" before the password it is of, "" none.      *)
(* A user is [name, shell, home, password, hash, maxAge, groups, sudo, keys, *)
(* startup], as in the template.                                             *)
EXTENDS Lists

CryptHashes == {"$6$secret"}
IsCryptHash(password) == password \in CryptHashes
Crypt(password) == "$6$" \o password
HashAlgorithms == {"sha512", "sha256", "md5", "bcrypt"}

(* The template's rule: a user can get in some way, or only runs its script. *)
HasCredential(u) == u.startup # "" \/ u.password # "" \/ u.keys # {}
HasSudoAccess(u) == u.sudo \/ u.groups \cap {"sudo", "wheel"} # {}

SetField(etc, u, field, v) ==
    [etc EXCEPT !.accounts = Put(@, u.name, [@[u.name] EXCEPT ![field] = v])]

DefaultUserShell == "/bin/bash"

(* An account that is there keeps its home, and its shell but for another.   *)
AddOrUpdateUserAccount(etc, u) ==
    IF u.name \notin DOMAIN etc.accounts
    THEN [etc EXCEPT !.accounts = Put(@, u.name,
              [shell |-> IF u.shell = "" THEN DefaultUserShell ELSE u.shell,
               home |-> IF u.home = "" THEN "/home/" \o u.name ELSE u.home,
               shadow |-> [locked |-> TRUE, of |-> ""], maxAge |-> <<>>, groups |-> {u.name}])]
    ELSE IF u.shell = "" THEN etc ELSE SetField(etc, u, "shell", u.shell)

HashPassword(password, hash) == IF hash \in HashAlgorithms THEN <<Crypt(password)>> ELSE Refused
SetHash(etc, u, hash) == SetField(etc, u, "shadow", [locked |-> FALSE, of |-> hash])

(* Mutant: what is a hash is taken for the password when no algorithm is said. *)
SetPasswordByAlgorithm(etc, u) ==
    IF u.hash # "" /\ IsCryptHash(u.password) THEN <<SetHash(etc, u, u.password)>>
    ELSE IF u.hash = "" THEN <<SetHash(etc, u, Crypt(u.password))>>
    ELSE LET h == HashPassword(u.password, u.hash) IN IF h = Refused THEN Refused ELSE <<SetHash(etc, u, h[1])>>
(* A complete hash is set as it is, whatever the algorithm; the rest is       *)
(* hashed by it, or by passwd.                                               *)
SetUserPassword(etc, u) ==
    IF IsCryptHash(u.password) THEN <<SetHash(etc, u, u.password)>>
    ELSE IF u.hash = "" THEN <<SetHash(etc, u, Crypt(u.password))>>
    ELSE LET h == HashPassword(u.password, u.hash) IN IF h = Refused THEN Refused ELSE <<SetHash(etc, u, h[1])>>

(* Locked for a user with keys; else none is asked for. *)
ClearUserPassword(etc, u) ==
    SetField(etc, u, "shadow", IF u.keys # {} THEN [etc.accounts[u.name].shadow EXCEPT !.locked = TRUE]
                               ELSE [locked |-> FALSE, of |-> ""])

SetPasswordMaxAge(etc, u) == IF u.maxAge = <<>> THEN etc ELSE SetField(etc, u, "maxAge", u.maxAge)

DefaultSudoGroups(os) == IF os \in {"azure-linux", "edge-microvisor-toolkit"} THEN {"wheel", "sudo"} ELSE {"sudo"}

(* A group a template left to be filled in is none. *)
Placeholders == {"<group>"}
CollectUserGroups(u, os) == (u.groups \ ({""} \cup Placeholders)) \cup IF u.sudo THEN DefaultSudoGroups(os) ELSE {}

EnsureGroupsExist(etc, u, os) ==
    LET groups == CollectUserGroups(u, os)
    IN  SetField([etc EXCEPT !.groups = @ \cup groups], u, "groups", etc.accounts[u.name].groups \cup groups)

(* The script is the account's shell, if the image has it. *)
ConfigUserStartupScript(etc, u) ==
    IF u.startup = "" THEN <<etc>>
    ELSE IF u.startup \notin etc.files THEN Refused
    ELSE <<SetField(etc, u, "shell", u.startup)>>

(* In the account's home, if it has one that no link is on the way to. *)
WriteAuthorizedKeys(etc, u) ==
    LET home == etc.accounts[u.name].home
    IN  IF u.keys = {} THEN <<etc>>
        ELSE IF home \in {"/", ""} \cup DOMAIN etc.links THEN Refused
        ELSE <<[etc EXCEPT !.keys = Put(@, home, u.keys \cup IF home \in DOMAIN @ THEN @[home] ELSE {})]>>

IsKeyOnlySudoUser(u) == HasSudoAccess(u) /\ u.password = "" /\ u.keys # {}
WriteKeyOnlySudoers(etc, users) ==
    LET granted == {u.name : u \in {x \in Range(users) : IsKeyOnlySudoUser(x)}}
    IN  [etc EXCEPT !.sudoers = IF granted = {} THEN @ ELSE granted]

CreateUser(etc, u, os) ==
    LET added == AddOrUpdateUserAccount(etc, u)
        secured == IF u.password # "" THEN SetUserPassword(added, u) ELSE <<ClearUserPassword(added, u)>>
        started == IF secured = Refused THEN Refused
                   ELSE ConfigUserStartupScript(EnsureGroupsExist(SetPasswordMaxAge(secured[1], u), u, os), u)
    IN  IF ~HasCredential(u) \/ started = Refused THEN Refused ELSE WriteAuthorizedKeys(started[1], u)

-----------------------------------------------------------------------------
(* What the users were promised: each gets in by the password that was given, *)
(* however it was given, or by its keys and only by them; its keys are in its *)
(* own home, and nobody else's; its script is what it runs; and who has sudo  *)
(* can use it.  Of those with one name, the last counts for the password.    *)
LastOfName(users, n, i) == \A j \in i + 1 .. n : users[j].name # users[i].name
MayLogInAs(was, etc, users) ==
    \A i \in DOMAIN users :
        LET u == users[i]
            a == etc.accounts[u.name]
        IN  /\ LastOfName(users, Len(users), i) =>
                 /\ u.password # "" =>
                      a.shadow = [locked |-> FALSE, of |-> IF IsCryptHash(u.password) THEN u.password ELSE Crypt(u.password)]
                 /\ u.password = "" /\ u.keys # {} => a.shadow.locked
                 /\ u.startup # "" => a.shell = u.startup
            /\ u.keys # {} => u.keys \subseteq etc.keys[a.home]
            /\ HasSudoAccess(u) /\ u.password = "" /\ u.keys # {} => u.name \in etc.sudoers
            /\ \A home \in DOMAIN etc.keys : \A k \in u.keys \cap etc.keys[home] :
                 \/ home \in DOMAIN was.keys /\ k \in was.keys[home]
                 \/ \E o \in Range(users) : k \in o.keys /\ etc.accounts[o.name].home = home
=============================================================================
