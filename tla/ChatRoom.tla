------------------------------ MODULE ChatRoom ------------------------------
(***************************************************************************)
(* What the multi-user shell server promises its users, with no sockets,   *)
(* descriptors or processes: who is in the room under which id, what they  *)
(* are called, which user pipes wait to be read, and whose environment     *)
(* variables are whose.  NpServer is shown to implement this module.       *)
(***************************************************************************)
EXTENDS Integers, FiniteSets

CONSTANTS MaxUsers,    \* ids are 1 .. MaxUsers (30 in the program)
          Clients, NoClient,
          Names,       \* what a user may call itself
          Anonymous,   \* "(no name)", which no user can choose
          Vars, Vals,  \* environment variables users set, and their values
          Unset        \* the value of a variable its user never set

VARIABLES room,   \* room[i]: the client whose id is i, or NoClient
          nick,   \* nick[i]: its name
          pend,   \* <<i, j>>: i piped to j and j has not received it yet
          env     \* env[i]: what user i made of each variable

rvars == <<room, nick, pend, env>>

Ids == 1 .. MaxUsers
Present == {i \in Ids : room[i] # NoClient}
FreshEnv == [v \in Vars |-> Unset]

Init ==
    /\ room = [i \in Ids |-> NoClient]
    /\ nick = [i \in Ids |-> Anonymous]
    /\ pend = {}
    /\ env = [i \in Ids |-> FreshEnv]

\* A new user always gets the smallest unused id, and inherits nothing.
Join(c) ==
    /\ \A i \in Ids : room[i] # c
    /\ \E i \in Ids \ Present :
        /\ \A j \in Ids \ Present : i <= j
        /\ room' = [room EXCEPT ![i] = c]
        /\ nick' = [nick EXCEPT ![i] = Anonymous]
        /\ env' = [env EXCEPT ![i] = FreshEnv]
    /\ UNCHANGED pend

\* The pipes to and from a user go with the user.
Leave(i) ==
    /\ i \in Present
    /\ room' = [room EXCEPT ![i] = NoClient]
    /\ nick' = [nick EXCEPT ![i] = Anonymous]
    /\ pend' = {p \in pend : p[1] # i /\ p[2] # i}
    /\ UNCHANGED env

Rename(i, n) ==
    /\ i \in Present
    /\ \A j \in Present \ {i} : nick[j] # n
    /\ nick' = [nick EXCEPT ![i] = n]
    /\ UNCHANGED <<room, pend, env>>

SetVar(i, v, x) ==
    /\ i \in Present
    /\ env' = [env EXCEPT ![i][v] = x]
    /\ UNCHANGED <<room, nick, pend>>

Pipe(i, j) ==
    /\ {i, j} \subseteq Present
    /\ <<i, j>> \notin pend
    /\ pend' = pend \cup {<<i, j>>}
    /\ UNCHANGED <<room, nick, env>>

Receive(i, j) ==
    /\ <<i, j>> \in pend
    /\ pend' = pend \ {<<i, j>>}
    /\ UNCHANGED <<room, nick, env>>

Next ==
    \/ \E c \in Clients : Join(c)
    \/ \E i \in Ids : Leave(i)
    \/ \E i \in Ids, n \in Names : Rename(i, n)
    \/ \E i \in Ids, v \in Vars, x \in Vals : SetVar(i, v, x)
    \/ \E i, j \in Ids : Pipe(i, j) \/ Receive(i, j)

Spec == Init /\ [][Next]_rvars

-----------------------------------------------------------------------------
\* A user pipe waits only between two users who are both online: when either
\* leaves it is gone, so whoever gets the id next cannot read it
\* (remove_remain_fifo).
PipesBetweenPresent == \A p \in pend : {p[1], p[2]} \subseteq Present

\* No two online users have chosen the same name (rename).
UniqueNicks ==
    \A i, j \in Present : i # j /\ nick[i] = nick[j] => nick[i] = Anonymous

\* Nobody is in the room twice.
OneIdEach == \A i, j \in Present : i # j => room[i] # room[j]
=============================================================================
