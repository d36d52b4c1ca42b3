---------------------------- MODULE InboxService ----------------------------
(***************************************************************************)
(* What a native receiver promises its senders, without chunks, files on   *)
(* disk, tasks or crashes: files of a transfer appear in the inbox with    *)
(* the content that was offered, a transfer is settled only when all of    *)
(* its files have appeared, and what has appeared stays delivered. The     *)
(* content is promised only while a transfer is not contended, that is     *)
(* worked on by two connections at once.                                   *)
(***************************************************************************)
EXTENDS Naturals

CONSTANTS Transfer,       \* transfer ids
          Files,          \* Files[t]: the file ids of transfer t
          Good(_, _, _)   \* Good(t, f, data): data is what was offered

VARIABLES contended,      \* transfers whose content is no longer promised
          got,            \* files that appeared in the inbox
          settled         \* transfers reported complete

vars == <<contended, got, settled>>

Init == contended = {} /\ got = {} /\ settled = {}

Contend(t) ==
  /\ contended' = contended \cup {t}
  /\ UNCHANGED <<got, settled>>

Publish(file) ==
  /\ file.transfer \notin contended => Good(file.transfer, file.file, file.data)
  /\ got' = got \cup {file}
  /\ UNCHANGED <<contended, settled>>

Settle(t) ==
  /\ \A f \in Files[t] : \E file \in got : file.transfer = t /\ file.file = f
  /\ settled' = settled \cup {t}
  /\ UNCHANGED <<contended, got>>

Reopen(t) ==
  /\ settled' = settled \ {t}
  /\ UNCHANGED <<contended, got>>

\* One file appears at a time, and it is one of the transfer's files.
PublishOne ==
  \E file \in got' :
    /\ file.transfer \in Transfer
    /\ file.file \in Files[file.transfer]
    /\ Publish(file)

Next == PublishOne \/ \E t \in Transfer : Contend(t) \/ Settle(t) \/ Reopen(t)

Spec == Init /\ [][Next]_vars
=============================================================================
