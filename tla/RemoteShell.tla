----------------------------- MODULE RemoteShell -----------------------------
(***************************************************************************)
(* A command on its way from the base station's shell to the shells of the *)
(* sensors: sendcmd and sendp2pcmd of shell-sky.c, the frame that all the  *)
(* nodes hear or miss, remote_shell_input that looks for the node's id in  *)
(* the list in front of the command, the event that carries a pointer into *)
(* the stack frame of remote_shell_input, and remote_shell_process.        *)
(*                                                                         *)
(* A command line is a list of ids and a word.                             *)
(***************************************************************************)
EXTENDS Naturals, Sequences, SequencesExt

CONSTANTS
  Nodes,      \* node_id of the sensors, below 100
  MaxIds,     \* bound: ids in front of a command
  Known, Unknown,  \* words in remote_cmd_list, words that are not
  MaxSent     \* bound: commands that are sent

VARIABLES
  sent,    \* the commands the base station has broadcast
  heard,   \* per node, the number of the last one it received
  posted,  \* per node, the offsets in the events that wait
  command, \* per node, what the last remote_shell_input left on the stack
  ran      \* per node, what its shell was given

vars == <<sent, heard, posted, command, ran>>

Nothing == [no |-> 0, ids |-> << >>, word |-> "nothing"]

Init ==
  /\ sent = << >>
  /\ heard = [n \in Nodes |-> 0]
  /\ posted = [n \in Nodes |-> << >>]
  /\ command = [n \in Nodes |-> Nothing]
  /\ ran = [n \in Nodes |-> << >>]

(***************************************************************************)
(* The base station.  shell_sky_is_remote_cmd compares as many characters  *)
(* as there are letters in front: with ids in front there are none.        *)
(***************************************************************************)
shell_sky_is_remote_cmd(ids, word) == ids # << >> \/ word \in Known

Broadcast(ids, word) ==
  sent' = Append(sent, [no |-> Len(sent) + 1, ids |-> ids, word |-> word])

sendcmd(ids, word) ==
  /\ Len(sent) < MaxSent
  /\ shell_sky_is_remote_cmd(ids, word)
  /\ Broadcast(ids, word)
  /\ UNCHANGED <<heard, posted, command, ran>>

(***************************************************************************)
(* remote_shell_input.  The digits of an id overwrite those of the one     *)
(* before, of which a longer one leaves the end: 12 and then 3 read 32.    *)
(***************************************************************************)
Overwritten(old, new) ==
  IF new < 10 /\ old >= 10 THEN 10 * new + (old % 10) ELSE new

\* What atoi(id) is after each id of the line.
Read(ids) ==
  LET read[k \in DOMAIN ids] ==
        IF k = 1 THEN ids[1] ELSE Overwritten(read[k - 1], ids[k])
  IN  read

FoundAt(n, ids) == {k \in DOMAIN ids : Read(ids)[k] = n}

\* The ids up to the node's own are skipped, the others are left in front.
Offset(n, ids) ==
  CHOOSE k \in FoundAt(n, ids) : \A j \in FoundAt(n, ids) : k <= j

Accepted(n, ids) == ids = << >> \/ FoundAt(n, ids) # {}

\* Whether the queue had room for the event is not asked.
remote_shell_input(n, f) ==
  /\ f.no > heard[n]
  /\ heard' = [heard EXCEPT ![n] = f.no]
  /\ command' = [command EXCEPT ![n] = f]
  /\ \/ UNCHANGED posted
     \/ /\ Accepted(n, f.ids)
        /\ posted' = [posted EXCEPT ![n] =
                        Append(@, IF f.ids = << >> THEN 0
                                  ELSE Offset(n, f.ids))]
  /\ UNCHANGED <<sent, ran>>

\* The event points into the frame of a function that has returned: calls and
\* interrupts may have written over it, and printf does before the shell reads.
OnStack(n) == {command[n], Nothing}

remote_shell_process(n) ==
  /\ posted[n] # << >>
  /\ \E line \in OnStack(n) :
       LET rest == SubSeq(line.ids, Head(posted[n]) + 1, Len(line.ids))
       IN  ran' = [ran EXCEPT ![n] = Append(@, [line EXCEPT !.ids = rest])]
  /\ posted' = [posted EXCEPT ![n] = Tail(@)]
  /\ UNCHANGED <<sent, heard, command>>

Next ==
  \/ \E ids \in SeqOf(Nodes, MaxIds), word \in Known \cup Unknown :
       sendcmd(ids, word)
  \/ \E n \in Nodes : \/ \E i \in DOMAIN sent : remote_shell_input(n, sent[i])
                      \/ remote_shell_process(n)

Spec == Init /\ [][Next]_vars

(***************************************************************************)
(* Properties.                                                             *)
(***************************************************************************)
Addressed(n, f) == f.ids = << >> \/ n \in ToSet(f.ids)

\* "sendp2pcmd <command>: send command to specific remote nodes"
\* (shell-sky.c:106): a command that a sensor's shell is given was sent to that
\* sensor.  What the stack holds once the command is gone is not asked.
RunsWhereSent ==
  \A n \in Nodes : \A k \in DOMAIN ran[n] :
    ran[n][k].no # 0 => Addressed(n, sent[ran[n][k].no])

=============================================================================
