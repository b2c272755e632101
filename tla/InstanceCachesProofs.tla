------------------------- MODULE InstanceCachesProofs -------------------------
(***************************************************************************)
(* Proofs about InstanceCaches, for any number of readers, writes and      *)
(* requests and any combination of faults: a list that is older than a     *)
(* write that was acknowledged can only come from a fetch that was in      *)
(* flight when the write invalidated the list, and the passwords of a      *)
(* deleted instance never come back.                                       *)
(*                                                                         *)
(* The argument for the list: rest-api reads the newest rows, so a reply   *)
(* is current when it is made; a write acknowledged before the reply is    *)
(* stored is an overlap, and without one it stays current (ListsAreCurrent)*)
(* until the next write empties the memory.  For the passwords: the        *)
(* request that may store its reply was sent after the delete              *)
(* (DeletedIsGone), and then rest-api refuses.                             *)
(***************************************************************************)
EXTENDS InstanceCaches, TLAPS

\* The initial states.
LEMMA InitSafe == Init => IInv
<1> SUFFICES ASSUME Init PROVE IInv
  OBVIOUS
<1> USE ConstantsOK
<1>t. Flags
  BY DEF Init, Flags
<1>1. TypeOK
  BY <1>t DEF Init, TypeOK, Lists, WriteStates
<1>2. VersionsExist /\ ListsAreCurrent /\ ReadersInOrder /\ DeletedIsGone
  BY DEF Init, VersionsExist, ListsAreCurrent, ReadersInOrder, DeletedIsGone, Acknowledged
<1>3. CurrentUnlessOverlap /\ ForgottenForGood
  BY DEF Init, CurrentUnlessOverlap, NextReaderRefetches, ForgottenForGood
<1> QED
  BY <1>1, <1>2, <1>3 DEF IInv

-------------------------------------------------------------------------------
(* The steps of the list's readers. *)

\* A call of getCachedNodeInstances keeps the invariant.
LEMMA ReadSafe ==
  ASSUME IInv, NEW r \in Readers, getCachedNodeInstances(r)
  PROVE  IInv'
<1> USE ConstantsOK DEF getCachedNodeInstances, fetchInstances, db, list, writes, passwords
<1>t. Flags'
  BY DEF IInv, TypeOK, Flags
<1>1. TypeOK'
  BY <1>t DEF IInv, TypeOK, Lists, Acknowledged
<1>2. UNCHANGED <<cached, answer, write, version, rows, deleted, secrets, pending, request, overlap>>
  OBVIOUS
<1>3. Acknowledged' = Acknowledged
  BY <1>2 DEF Acknowledged
<1>4. VersionsExist' /\ DeletedIsGone' /\ ForgottenForGood'
  BY <1>2 DEF IInv, VersionsExist, DeletedIsGone, ForgottenForGood
<1>5. ListsAreCurrent'
  BY <1>2, <1>3 DEF IInv, ListsAreCurrent
<1>6. ReadersInOrder'
  BY <1>3 DEF IInv, TypeOK, ReadersInOrder
<1>7. CurrentUnlessOverlap'
  BY <1>2 DEF IInv, TypeOK, CurrentUnlessOverlap, NextReaderRefetches, ListsAreCurrent
<1> QED
  BY <1>1, <1>4, <1>5, <1>6, <1>7 DEF IInv

\* A step of the sync or of rest-api that hands nothing to a reader.
LEMMA FetchSafe ==
  ASSUME IInv, refreshNodeInstances \/ AnswerFetch \/ FailFetch
  PROVE  IInv'
<1> USE ConstantsOK DEF refreshNodeInstances, AnswerFetch, FailFetch, fetchInstances, db, readers,
                        writes, passwords
<1>t. Flags'
  BY DEF IInv, TypeOK, Flags
<1>1. TypeOK'
  BY <1>t DEF IInv, TypeOK
<1>2. UNCHANGED <<cached, write, version, rows, deleted, secrets, pending, request, overlap,
                  reader, asked, got>>
  OBVIOUS
<1>3. Acknowledged' = Acknowledged /\ Acknowledged \subseteq Writes
  BY <1>2 DEF Acknowledged
<1>4. VersionsExist' /\ DeletedIsGone' /\ ForgottenForGood'
  BY <1>2 DEF IInv, VersionsExist, DeletedIsGone, ForgottenForGood
<1>5. ListsAreCurrent'
  BY <1>2, <1>3 DEF IInv, ListsAreCurrent, VersionsExist
<1>6. ReadersInOrder' /\ CurrentUnlessOverlap'
  BY <1>2, <1>3 DEF IInv, ReadersInOrder, CurrentUnlessOverlap, NextReaderRefetches
<1> QED
  BY <1>1, <1>4, <1>5, <1>6 DEF IInv

\* The end of a fetch: every reader that waits gets the reply, or the memory.
LEMMA EndOfFetchSafe ==
  ASSUME IInv, StoreList \/ RejectFetch
  PROVE  IInv'
<1> USE ConstantsOK DEF StoreList, RejectFetch, Serve, db, writes, passwords
<1>t. Flags'
  BY DEF IInv, TypeOK, Flags
<1>1. TypeOK'
  BY <1>t DEF IInv, TypeOK
<1>2. UNCHANGED <<write, version, rows, deleted, secrets, pending, request, overlap, asked>>
  OBVIOUS
<1>3. Acknowledged' = Acknowledged /\ Acknowledged \subseteq Writes
  BY <1>2 DEF Acknowledged
<1>4. VersionsExist' /\ DeletedIsGone' /\ ForgottenForGood'
  BY <1>2 DEF IInv, VersionsExist, DeletedIsGone, ForgottenForGood
<1>5. ListsAreCurrent'
  BY <1>2, <1>3 DEF IInv, ListsAreCurrent
<1>6. ReadersInOrder'
  BY <1>2, <1>3 DEF IInv, TypeOK, ReadersInOrder
<1>7. CurrentUnlessOverlap'
  BY <1>2, <1>3 DEF IInv, TypeOK, CurrentUnlessOverlap, NextReaderRefetches, ListsAreCurrent,
                    ReadersInOrder
<1> QED
  BY <1>1, <1>4, <1>5, <1>6, <1>7 DEF IInv

\* The passing of time changes no list and no password.
LEMMA TimeSafe ==
  ASSUME IInv, ExpireList \/ EndBackoff \/ ExpireSecrets
  PROVE  IInv'
<1> USE ConstantsOK DEF ExpireList, EndBackoff, ExpireSecrets, db, list, readers, writes,
                        passwords
<1>t. Flags'
  BY DEF IInv, TypeOK, Flags
<1>1. TypeOK'
  BY <1>t DEF IInv, TypeOK
<1>2. UNCHANGED <<write, version, rows, deleted, pending, request, overlap, cached, inFlight,
                  answer, reader, asked, got>>
  OBVIOUS
<1>3. Acknowledged' = Acknowledged
  BY <1>2 DEF Acknowledged
<1>4. VersionsExist' /\ DeletedIsGone'
  BY <1>2 DEF IInv, VersionsExist, DeletedIsGone
<1>5. ForgottenForGood'
  BY <1>2 DEF IInv, ForgottenForGood
<1>6. ListsAreCurrent' /\ ReadersInOrder'
  BY <1>2, <1>3 DEF IInv, ListsAreCurrent, ReadersInOrder
<1>7. CurrentUnlessOverlap'
  BY <1>2 DEF IInv, CurrentUnlessOverlap, NextReaderRefetches
<1> QED
  BY <1>1, <1>4, <1>5, <1>6, <1>7 DEF IInv

-------------------------------------------------------------------------------
(* The steps of the passwords. *)

\* A request that rest-api grants is one whose instance was not deleted.
LEMMA SecretsSafe ==
  ASSUME IInv, NEW q \in Requests,
         getInstanceSecrets(q) \/ AnswerSecrets(q) \/ StoreSecrets(q)
  PROVE  IInv'
<1> USE ConstantsOK DEF getInstanceSecrets, AnswerSecrets, StoreSecrets, db, list, readers, writes
<1>t. Flags'
  BY DEF IInv, TypeOK, Flags
<1>1. TypeOK'
  BY <1>t DEF IInv, TypeOK
<1>2. UNCHANGED <<write, version, rows, deleted, overlap, cached, inFlight, answer, reader,
                  asked, got>>
  OBVIOUS
<1>3. Acknowledged' = Acknowledged
  BY <1>2 DEF Acknowledged
<1>4. VersionsExist' /\ ListsAreCurrent' /\ ReadersInOrder'
  BY <1>2, <1>3 DEF IInv, VersionsExist, ListsAreCurrent, ReadersInOrder
<1>5. CurrentUnlessOverlap'
  BY <1>2 DEF IInv, CurrentUnlessOverlap, NextReaderRefetches
<1>6. DeletedIsGone'
  BY <1>2 DEF IInv, TypeOK, DeletedIsGone
<1>7. ForgottenForGood'
  BY <1>2 DEF IInv, TypeOK, DeletedIsGone, ForgottenForGood
<1> QED
  BY <1>1, <1>4, <1>5, <1>6, <1>7 DEF IInv

-------------------------------------------------------------------------------
(* The steps of the writes. *)

\* A write that is sent, or fails, is not acknowledged.
LEMMA SendSafe ==
  ASSUME IInv, NEW w \in Writes, SendWrite(w) \/ FailWrite(w)
  PROVE  IInv'
<1> USE ConstantsOK DEF SendWrite, FailWrite, db, list, readers, passwords
<1>t. Flags'
  BY DEF IInv, TypeOK, Flags
<1>1. TypeOK'
  BY <1>t DEF IInv, TypeOK, WriteStates
<1>2. UNCHANGED <<version, rows, deleted, overlap, cached, inFlight, answer, reader, asked, got,
                  secrets, pending, request>>
  OBVIOUS
<1>3. Acknowledged' = Acknowledged
  BY DEF IInv, TypeOK, Acknowledged
<1>4. VersionsExist' /\ ListsAreCurrent' /\ ReadersInOrder'
  BY <1>2, <1>3 DEF IInv, VersionsExist, ListsAreCurrent, ReadersInOrder
<1>5. CurrentUnlessOverlap'
  BY <1>2 DEF IInv, CurrentUnlessOverlap, NextReaderRefetches
<1>6. \A v \in Writes :
        /\ write'[v] \in {"deleted", "ackDelete"} => write[v] = write'[v]
  BY DEF IInv, TypeOK
<1>7. DeletedIsGone' /\ ForgottenForGood'
  BY <1>2, <1>6 DEF IInv, DeletedIsGone, ForgottenForGood
<1> QED
  BY <1>1, <1>4, <1>5, <1>7 DEF IInv

\* rest-api applies a write: a new version, known to nobody yet.
LEMMA ApplySafe ==
  ASSUME IInv, NEW w \in Writes, ApplyWrite(w)
  PROVE  IInv'
<1> USE ConstantsOK DEF ApplyWrite, list, readers, passwords
<1>0. rows \in Nat /\ w \notin Acknowledged
  BY DEF IInv, TypeOK, Lists, Acknowledged
<1>t. Flags'
  BY DEF IInv, TypeOK, Flags
<1>1. TypeOK'
  BY <1>t, <1>0 DEF IInv, TypeOK, WriteStates, Lists
<1>2. UNCHANGED <<overlap, cached, inFlight, answer, reader, asked, got, secrets, pending, request>>
  OBVIOUS
<1>3. Acknowledged' = Acknowledged /\ \A v \in Writes \ {w} : version'[v] = version[v]
  BY DEF IInv, TypeOK, Acknowledged
<1>4. VersionsExist'
  BY <1>0 DEF IInv, TypeOK, VersionsExist, Lists
<1>5. ListsAreCurrent' /\ ReadersInOrder'
  BY <1>0, <1>2, <1>3 DEF IInv, ListsAreCurrent, ReadersInOrder, Acknowledged
<1>6. CurrentUnlessOverlap'
  BY <1>0, <1>2, <1>3 DEF IInv, CurrentUnlessOverlap, NextReaderRefetches, ReadersInOrder,
                          Acknowledged
<1>7. DeletedIsGone' /\ ForgottenForGood'
  BY <1>2 DEF IInv, TypeOK, DeletedIsGone, ForgottenForGood
<1> QED
  BY <1>1, <1>4, <1>5, <1>6, <1>7 DEF IInv

\* The reply to a write: the list is dropped, and for a delete the passwords.
LEMMA AckSafe ==
  ASSUME IInv, NEW w \in Writes, AckUpdate(w) \/ AckDelete(w)
  PROVE  IInv'
<1> USE ConstantsOK DEF AckUpdate, AckDelete, invalidateNodeInstances, db, readers, passwords
<1>t. Flags'
  BY DEF IInv, TypeOK, Flags
<1>1. TypeOK'
  BY <1>t DEF IInv, TypeOK, WriteStates
<1>2. UNCHANGED <<version, rows, deleted, reader, asked, got, inFlight, answer, request>>
  OBVIOUS
<1>3. Acknowledged \subseteq Acknowledged'
  BY DEF IInv, TypeOK, Acknowledged
<1>4. VersionsExist' /\ ReadersInOrder'
  BY <1>2, <1>3 DEF IInv, VersionsExist, ReadersInOrder
<1>5. ListsAreCurrent'
  BY DEF ListsAreCurrent
<1>6. CurrentUnlessOverlap'
  BY <1>2 DEF IInv, CurrentUnlessOverlap, NextReaderRefetches
<1>7. CASE AckUpdate(w)
  <2>1. \A v \in Writes :
          write'[v] \in {"deleted", "ackDelete"} => write[v] = write'[v]
    BY <1>7 DEF IInv, TypeOK
  <2>2. DeletedIsGone' /\ ForgottenForGood'
    BY <1>7, <2>1 DEF IInv, DeletedIsGone, ForgottenForGood
  <2> QED
    BY <1>1, <1>4, <1>5, <1>6, <2>2 DEF IInv
<1>8. CASE AckDelete(w)
  <2>1. deleted /\ deleted' = deleted
    BY <1>8 DEF IInv, DeletedIsGone
  <2>2. DeletedIsGone' /\ ForgottenForGood'
    BY <1>8, <2>1 DEF DeletedIsGone, ForgottenForGood
  <2> QED
    BY <1>1, <1>4, <1>5, <1>6, <2>2 DEF IInv
<1> QED
  BY <1>7, <1>8

\* A change from elsewhere: a version of the rows that no write has made.
LEMMA OutOfBandSafe ==
  ASSUME IInv, OutOfBand
  PROVE  IInv'
<1> USE ConstantsOK DEF OutOfBand, list, readers, writes, passwords
<1>1. rows \in Nat
  BY DEF IInv, TypeOK, Lists
<1>t. Flags'
  BY DEF IInv, TypeOK, Flags
<1>2. TypeOK'
  BY <1>1, <1>t DEF IInv, TypeOK, Lists
<1>3. UNCHANGED <<overlap, cached, inFlight, answer, reader, asked, got, secrets, pending,
                  request, write, version>>
  OBVIOUS
<1>4. Acknowledged' = Acknowledged
  BY <1>3 DEF Acknowledged
<1>5. VersionsExist'
  BY <1>1 DEF IInv, TypeOK, VersionsExist, Lists
<1>6. ListsAreCurrent' /\ ReadersInOrder'
  BY <1>3, <1>4 DEF IInv, ListsAreCurrent, ReadersInOrder
<1>7. CurrentUnlessOverlap'
  BY <1>3 DEF IInv, CurrentUnlessOverlap, NextReaderRefetches
<1>8. deleted => deleted'
  OBVIOUS
<1>9. DeletedIsGone' /\ ForgottenForGood'
  BY <1>3, <1>8 DEF IInv, DeletedIsGone, ForgottenForGood
<1> QED
  BY <1>2, <1>5, <1>6, <1>7, <1>9 DEF IInv

-------------------------------------------------------------------------------
\* The invariant holds in every behaviour of the two caches.
THEOREM Invariance == Spec => []IInv
<1>1. IInv /\ [Next]_vars => IInv'
  <2> SUFFICES ASSUME IInv, [Next]_vars PROVE IInv'
    OBVIOUS
  <2>1. CASE Next
    BY <2>1, ReadSafe, FetchSafe, EndOfFetchSafe, TimeSafe, SecretsSafe, SendSafe, ApplySafe,
       AckSafe, OutOfBandSafe DEF Next
  <2>2. CASE UNCHANGED vars
    BY <2>2 DEF vars, db, list, readers, writes, passwords, IInv, TypeOK, Flags, VersionsExist,
       ListsAreCurrent, ReadersInOrder, DeletedIsGone, CurrentUnlessOverlap,
       NextReaderRefetches, ForgottenForGood, Acknowledged
  <2> QED
    BY <2>1, <2>2
<1> QED
  BY InitSafe, <1>1, PTL DEF Spec

\* Unless a fetch was in flight when a write invalidated the list, whoever asks
\* after a write was acknowledged gets a list that has it.
THEOREM ReadersSeeWrites == Spec => []CurrentUnlessOverlap
<1>1. IInv => CurrentUnlessOverlap
  BY DEF IInv
<1> QED
  BY <1>1, Invariance, PTL

\* The passwords of an instance do not come back after its delete.
THEOREM NoPasswordsAfterDelete == Spec => []ForgottenForGood
<1>1. IInv => ForgottenForGood
  BY DEF IInv
<1> QED
  BY <1>1, Invariance, PTL
===============================================================================
