-------------------------- MODULE DurableJournalProofs --------------------------
(***************************************************************************)
(* The journal's safety for any writers, events, legacy file and batch     *)
(* limit.  Each action preserves JournalInv; the sequence facts it needs   *)
(* are the lemmas of the first section.                                    *)
(***************************************************************************)
EXTENDS DurableJournal, SequenceTheorems, TLAPS

(* Sequences. *)

\* Append leaves the old elements and adds the new one.
LEMMA AppendFacts ==
  ASSUME NEW S, NEW s \in Seq(S), NEW e \in S
  PROVE  /\ Append(s, e) \in Seq(S)
         /\ Len(Append(s, e)) = Len(s) + 1
         /\ \A k \in 1..Len(s) : Append(s, e)[k] = s[k]
         /\ Append(s, e)[Len(s) + 1] = e
  OBVIOUS

\* INSERT OR IGNORE keeps the rows distinct, keeps every row where it was and
\* makes sure that the event is there.
LEMMA InsertFacts ==
  ASSUME NEW s \in Seq(Events), Distinct(s), NEW e \in Events
  PROVE  /\ InsertOrIgnore(s, e) \in Seq(Events)
         /\ Distinct(InsertOrIgnore(s, e))
         /\ Len(InsertOrIgnore(s, e)) >= Len(s)
         /\ \A k \in 1..Len(s) : InsertOrIgnore(s, e)[k] = s[k]
         /\ \A x : InSeq(x, s) => InSeq(x, InsertOrIgnore(s, e))
         /\ InSeq(e, InsertOrIgnore(s, e))
         /\ InsertOrIgnore(s, e) = s \/ Len(InsertOrIgnore(s, e)) = Len(s) + 1
<1>1. CASE InSeq(e, s)
  BY <1>1 DEF InsertOrIgnore
<1>2. CASE ~InSeq(e, s)
  <2> DEFINE t == Append(s, e)
  <2>1. InsertOrIgnore(s, e) = t
    BY <1>2 DEF InsertOrIgnore
  <2>2. t \in Seq(Events) /\ Len(t) = Len(s) + 1 /\ (\A k \in 1..Len(s) : t[k] = s[k]) /\ t[Len(s) + 1] = e
    BY AppendFacts
  <2>3. Len(s) \in Nat
    OBVIOUS
  <2> HIDE DEF t
  <2>4. Distinct(t)
    BY <1>2, <2>2, <2>3 DEF Distinct, InSeq
  <2>5. \A x : InSeq(x, s) => InSeq(x, t)
    BY <2>2, <2>3 DEF InSeq
  <2>6. InSeq(e, t)
    BY <2>2, <2>3 DEF InSeq
  <2>7. QED
    BY <2>1, <2>2, <2>3, <2>4, <2>5, <2>6
<1>3. QED
  BY <1>1, <1>2

\* A prefix followed by another sequence.
LEMMA PrefixConcat ==
  ASSUME NEW S, NEW f \in Seq(S), NEW b \in Seq(S), NEW n \in 0..Len(f)
  PROVE  /\ SubSeq(f, 1, n) \o b \in Seq(S)
         /\ Len(SubSeq(f, 1, n) \o b) = n + Len(b)
         /\ \A k \in 1..n : (SubSeq(f, 1, n) \o b)[k] = f[k]
         /\ \A k \in 1..Len(b) : (SubSeq(f, 1, n) \o b)[n + k] = b[k]
<1> DEFINE p == SubSeq(f, 1, n)
<1>0. Len(f) \in Nat /\ n \in Nat /\ n <= Len(f)
  OBVIOUS
<1>1. p \in Seq(S) /\ Len(p) = n /\ \A k \in 1..n : p[k] = f[k]
  <2>1. CASE n = 0
    <3>1. p = << >>
      BY <2>1
    <3>2. QED
      BY <2>1, <3>1
  <2>2. CASE n > 0
    BY <2>2, <1>0, SubSeqProperties
  <2>3. QED
    BY <2>1, <2>2, <1>0
<1> HIDE DEF p
<1>2. p \o b \in Seq(S) /\ Len(p \o b) = Len(p) + Len(b)
  BY <1>1, ConcatProperties
<1>3. \A k \in 1..(Len(p) + Len(b)) : (p \o b)[k] = IF k <= Len(p) THEN p[k] ELSE b[k - Len(p)]
  BY <1>1, ConcatProperties
<1>4. Len(b) \in Nat
  OBVIOUS
<1>5. \A k \in 1..n : (p \o b)[k] = f[k]
  BY <1>0, <1>1, <1>3, <1>4
<1>6. \A k \in 1..Len(b) : (p \o b)[n + k] = b[k]
  BY <1>0, <1>1, <1>3, <1>4
<1>7. QED
  BY <1>1, <1>2, <1>5, <1>6 DEF p

\* A prefix of a sequence stays in front of whatever is appended to it.
LEMMA PrefixConcat2 ==
  ASSUME NEW S, NEW f \in Seq(S), NEW b \in Seq(S), NEW t \in Seq(S), NEW n \in 0..Len(f),
         NEW p, p = SubSeq(f, 1, n) \o b, NEW r, r = p \o t
  PROVE  r \in Seq(S) /\ Len(r) >= n /\ \A k \in 1..n : r[k] = f[k]
<1>1. p \in Seq(S) /\ Len(p) = n + Len(b) /\ \A k \in 1..n : p[k] = f[k]
  BY PrefixConcat
<1>2. Len(f) \in Nat /\ Len(b) \in Nat /\ Len(t) \in Nat /\ n \in Nat
  OBVIOUS
<1>3. r \in Seq(S) /\ Len(r) = Len(p) + Len(t)
  BY ONLY <1>1, ConcatProperties, t \in Seq(S), r = p \o t
<1>4. \A k \in 1..(Len(p) + Len(t)) : r[k] = IF k <= Len(p) THEN p[k] ELSE t[k - Len(p)]
  BY ONLY <1>1, ConcatProperties, t \in Seq(S), r = p \o t
<1>5. QED
  BY <1>1, <1>2, <1>3, <1>4

\* A subsequence of a sequence over S is one too.
LEMMA SubSeqType ==
  ASSUME NEW S, NEW s \in Seq(S), NEW i \in Nat \ {0}, NEW j \in 0..Len(s)
  PROVE  SubSeq(s, i, j) \in Seq(S)
<1>1. \A k \in i..j : s[k] \in S
  OBVIOUS
<1>2. i \in Int /\ j \in Int
  OBVIOUS
<1>3. QED
  BY <1>1, <1>2, SubSeqProperties

\* What a torn write leaves agrees with the file up to the committed offset.
LEMMA TornFacts ==
  ASSUME JournalTypeOK, Len(file) >= cursor.offset, NEW f \in Torn
  PROVE  /\ f \in Seq(Lines) /\ Len(f) >= cursor.offset
         /\ \A k \in 1..cursor.offset : f[k] = file[k]
<1>1. file \in Seq(Lines) /\ batch \in Seq(Lines)
  BY DEF JournalTypeOK, Lines
<1>2. cursor.offset \in Nat /\ Len(file) \in Nat /\ Len(batch) \in Nat /\ cursor.offset \in 0..Len(file)
  BY <1>1 DEF JournalTypeOK
<1>3. PICK k \in 0..Len(batch) :
          \E t \in {<<>>, <<Debris>>, <<Debris>> \o SubSeq(file, cursor.offset + k + 2, Len(file))} :
              f = SubSeq(file, 1, cursor.offset) \o SubSeq(batch, 1, k) \o t
  BY DEF Torn
<1>4. PICK t \in {<<>>, <<Debris>>, <<Debris>> \o SubSeq(file, cursor.offset + k + 2, Len(file))} :
              f = SubSeq(file, 1, cursor.offset) \o SubSeq(batch, 1, k) \o t
  BY <1>3
<1>5. SubSeq(batch, 1, k) \in Seq(Lines)
  BY <1>1, SubSeqType
<1>6. SubSeq(file, cursor.offset + k + 2, Len(file)) \in Seq(Lines)
  <2>1. cursor.offset + k + 2 \in Nat \ {0} /\ Len(file) \in 0..Len(file)
    BY <1>2
  <2>2. QED
    BY <1>1, <2>1, SubSeqType
<1>7. <<Debris>> \in Seq(Lines) /\ << >> \in Seq(Lines)
  BY DEF Lines
<1>8. <<Debris>> \o SubSeq(file, cursor.offset + k + 2, Len(file)) \in Seq(Lines)
  BY <1>6, <1>7, ConcatProperties
<1>9. t \in Seq(Lines)
  BY <1>4, <1>7, <1>8
<1>10. PICK b : b = SubSeq(batch, 1, k)
  OBVIOUS
<1>11. PICK n : n = cursor.offset
  OBVIOUS
<1>12. PICK g : g = file
  OBVIOUS
<1>13. f = SubSeq(g, 1, n) \o b \o t /\ b \in Seq(Lines) /\ g \in Seq(Lines) /\ n \in 0..Len(g)
  BY <1>1, <1>2, <1>4, <1>5, <1>10, <1>11, <1>12
<1>14. f \in Seq(Lines) /\ Len(f) >= n /\ \A i \in 1..n : f[i] = g[i]
  <2>1. PICK p : p = SubSeq(g, 1, n) \o b
    OBVIOUS
  <2>2. f = p \o t
    BY <1>13, <2>1
  <2>3. QED
    BY ONLY <1>9, <1>13, <2>1, <2>2, PrefixConcat2
<1>15. QED
  BY <1>11, <1>12, <1>14

-----------------------------------------------------------------------------
(* Each action preserves the invariant. *)

\* A call starts.
LEMMA AppendEventInv ==
  ASSUME JournalInv, NEW w \in Writers, NEW e \in Events, AppendEvent(w, e)
  PROVE  JournalInv'
<1> USE JournalAssumption DEF JournalInv, JournalTypeOK, Exclusive, Initialized, AppendEvent, Goto, locals, injury
<1>1. JournalTypeOK'
  BY DEF Lines
<1>2. Exclusive'
  OBVIOUS
<1>3. Aligned'
  BY DEF Aligned
<1>4. Projecting'
  BY DEF Projecting
<1>5. Importing'
  BY DEF Importing
<1>6. NoDebrisAfterCatchUp'
  BY DEF NoDebrisAfterCatchUp
<1>7. LegacyEventsSurvive'
  BY DEF LegacyEventsSurvive
<1>8. QED
  BY <1>1, <1>2, <1>3, <1>4, <1>5, <1>6, <1>7

\* The first call finds no projection row and reads the legacy file.
LEMMA InitializeBeginInv ==
  ASSUME JournalInv, NEW w \in Writers, InitializeBegin(w)
  PROVE  JournalInv'
<1> USE JournalAssumption DEF JournalInv, JournalTypeOK, Exclusive, Initialized, InitializeBegin, Goto, injury
<1>1. JournalTypeOK'
  BY DEF Lines
<1>2. Exclusive'
  OBVIOUS
<1>3. Aligned'
  BY DEF Aligned
<1>4. Projecting'
  BY DEF Projecting
<1>5. Importing'
  BY DEF Importing
<1>6. NoDebrisAfterCatchUp'
  BY DEF NoDebrisAfterCatchUp
<1>7. LegacyEventsSurvive'
  BY DEF LegacyEventsSurvive
<1>8. QED
  BY <1>1, <1>2, <1>3, <1>4, <1>5, <1>6, <1>7

\* The copy is complete before the import.
LEMMA WriteBackupInv ==
  ASSUME JournalInv, NEW w \in Writers, WriteBackup(w)
  PROVE  JournalInv'
<1> USE JournalAssumption DEF JournalInv, JournalTypeOK, Exclusive, Initialized, WriteBackup, Goto, locals, injury
<1>1. JournalTypeOK'
  BY DEF Lines
<1>2. Exclusive'
  OBVIOUS
<1>3. Aligned'
  BY DEF Aligned
<1>4. Projecting'
  BY DEF Projecting
<1>5. Importing'
  BY DEF Importing
<1>6. NoDebrisAfterCatchUp'
  BY DEF NoDebrisAfterCatchUp
<1>7. LegacyEventsSurvive'
  BY DEF LegacyEventsSurvive
<1>8. QED
  BY <1>1, <1>2, <1>3, <1>4, <1>5, <1>6, <1>7

\* One line further: its event is in the table to be.
LEMMA ImportLineInv ==
  ASSUME JournalInv, NEW w \in Writers, ImportLine(w)
  PROVE  JournalInv'
<1> USE JournalAssumption DEF JournalInv, JournalTypeOK, Exclusive, Initialized, injury
<1>a. /\ raw \in Seq(Lines) /\ Len(raw) \in Nat /\ Len(raw) >= 1
      /\ Head(raw) = raw[1] /\ raw[1] \in Lines
      /\ Tail(raw) \in Seq(Lines) /\ Len(Tail(raw)) = Len(raw) - 1
      /\ \A k \in 1..(Len(raw) - 1) : Tail(raw)[k] = raw[k + 1]
  BY DEF ImportLine
<1>b. EventOf(raw[1]) \in Events \cup {Malformed}
  BY <1>a DEF ImportLine, EventOf, Lines
<1>c. /\ pending' \in Seq(Events) /\ Distinct(pending')
      /\ \A x : InSeq(x, pending) => InSeq(x, pending')
      /\ EventOf(raw[1]) = Malformed \/ InSeq(EventOf(raw[1]), pending')
  <2>1. CASE EventOf(raw[1]) = Malformed
    BY <1>a, <2>1 DEF ImportLine, Aligned
  <2>2. CASE EventOf(raw[1]) # Malformed
    <3>1. EventOf(raw[1]) \in Events /\ pending \in Seq(Events) /\ Distinct(pending)
      BY <1>b, <2>2 DEF Aligned
    <3>2. pending' = InsertOrIgnore(pending, EventOf(raw[1]))
      BY <1>a, <2>2 DEF ImportLine
    <3>3. QED
      BY <3>1, <3>2, InsertFacts
  <2>3. QED
    BY <2>1, <2>2
<1>d. /\ at[w] = "import" /\ raw' = Tail(raw)
      /\ UNCHANGED <<rows, cursor, file, backup, lock, at, event, batch, unlinked, faults, removed, legacy>>
  BY DEF ImportLine
<1>1. JournalTypeOK'
  BY <1>a, <1>c, <1>d DEF Lines
<1>2. Exclusive'
  BY <1>a, <1>c, <1>d 
<1>3. Aligned'
  BY <1>a, <1>c, <1>d DEF Aligned
<1>4. Projecting'
  BY <1>a, <1>c, <1>d DEF Projecting
<1>5. Importing'
  <2>1. SUFFICES ASSUME ~removed PROVE Importing'
    BY <1>d DEF Importing
  <2>2. /\ ~Initialized /\ file = legacy /\ legacy # <<>> => backup # "none"
        /\ Len(raw) <= Len(legacy)
        /\ \A k \in 1..Len(raw) : raw[k] = legacy[Len(legacy) - Len(raw) + k]
        /\ \A k \in 1..(Len(legacy) - Len(raw)) :
               Parsed[legacy[k]] = Malformed \/ InSeq(Parsed[legacy[k]], pending)
    BY <2>1, <1>d DEF Importing
  <2>3. Len(legacy) \in Nat /\ \A k \in 1..Len(legacy) : legacy[k] \in RawLines
    OBVIOUS
  <2>4. raw[1] = legacy[Len(legacy) - Len(raw) + 1] /\ raw[1] \in RawLines
    BY <1>a, <2>2, <2>3
  <2>5. EventOf(raw[1]) = Parsed[raw[1]]
    BY <2>4 DEF EventOf
  <2>6. \A k \in 1..(Len(legacy) - Len(raw')) :
            Parsed[legacy[k]] = Malformed \/ InSeq(Parsed[legacy[k]], pending')
    <3>1. SUFFICES ASSUME NEW k \in 1..(Len(legacy) - Len(raw) + 1)
                   PROVE  Parsed[legacy[k]] = Malformed \/ InSeq(Parsed[legacy[k]], pending')
      BY <1>a, <1>d, <2>3
    <3>2. CASE k = Len(legacy) - Len(raw) + 1
      BY <3>2, <1>c, <2>4, <2>5
    <3>3. CASE k # Len(legacy) - Len(raw) + 1
      <4>1. k \in 1..(Len(legacy) - Len(raw))
        BY ONLY <3>1, <3>3, <1>a, <2>3
      <4>2. QED
        BY <4>1, <1>c, <2>2
    <3>4. QED
      BY <3>2, <3>3
  <2>7. Len(raw') <= Len(legacy) /\ \A k \in 1..Len(raw') : raw'[k] = legacy[Len(legacy) - Len(raw') + k]
    <3>1. Len(raw') = Len(raw) - 1 /\ \A k \in 1..Len(raw') : raw'[k] = raw[k + 1]
      BY ONLY <1>a, <1>d
    <3>2. \A k \in 1..(Len(raw) - 1) : raw[k + 1] = legacy[Len(legacy) - Len(raw) + (k + 1)]
      BY ONLY <1>a, <2>2
    <3>3. \A k \in Int : Len(legacy) - Len(raw) + (k + 1) = Len(legacy) - (Len(raw) - 1) + k
      BY ONLY <1>a, <2>3
    <3>4. QED
      BY ONLY <3>1, <3>2, <3>3, <1>a, <2>2, <2>3
  <2>8. \A v \in Writers : at[v] # "backup"
    BY <1>d
  <2>9. QED
    BY <1>d, <2>2, <2>6, <2>7, <2>8 DEF Importing
<1>6. NoDebrisAfterCatchUp'
  BY <1>a, <1>c, <1>d DEF NoDebrisAfterCatchUp
<1>7. LegacyEventsSurvive'
  BY <1>a, <1>c, <1>d DEF LegacyEventsSurvive
<1>8. QED
  BY <1>1, <1>2, <1>3, <1>4, <1>5, <1>6, <1>7

\* The import is rolled back.
LEMMA ImportRaisesInv ==
  ASSUME JournalInv, NEW w \in Writers, ImportRaises(w)
  PROVE  JournalInv'
<1> USE JournalAssumption DEF JournalInv, JournalTypeOK, Exclusive, Initialized, ImportRaises, Unlock, Goto, injury
<1>a. << >> \in Seq(Lines) /\ << >> \in Seq(Events)
  OBVIOUS
<1>1. JournalTypeOK'
  BY <1>a
<1>2. Exclusive'
  OBVIOUS
<1>3. Aligned'
  BY DEF Aligned, Distinct
<1>4. Projecting'
  BY DEF Projecting
<1>5. Importing'
  BY DEF Importing
<1>6. NoDebrisAfterCatchUp'
  BY DEF NoDebrisAfterCatchUp
<1>7. LegacyEventsSurvive'
  BY DEF LegacyEventsSurvive
<1>8. QED
  BY <1>1, <1>2, <1>3, <1>4, <1>5, <1>6, <1>7

\* The imported rows become the table, and the copy of the file exists.
LEMMA InitializeCommitInv ==
  ASSUME JournalInv, NEW w \in Writers, InitializeCommit(w)
  PROVE  JournalInv'
<1> USE JournalAssumption DEF JournalInv, JournalTypeOK, Exclusive, Initialized, InitializeCommit, Unlock, Goto, injury
<1>a. Len(rows) \in Nat /\ Len(pending) \in Nat /\ Len(file) \in Nat /\ cursor.seq = -1 /\ Len(raw) = 0 /\ << >> \in Seq(Lines) /\ << >> \in Seq(Events)
  OBVIOUS
<1>b. cursor' = [seq |-> 0, offset |-> 0] /\ cursor' \in [seq : Nat \cup {-1}, offset : Nat]
      /\ cursor'.seq = 0 /\ cursor'.offset = 0
  OBVIOUS
<1>1. JournalTypeOK'
  <2>1. rows' \in Seq(Events) /\ pending' \in Seq(Events) /\ batch' \in Seq(Events) /\ raw' \in Seq(Lines)
    BY <1>a
  <2>2. 0 <= Len(rows')
    BY <2>1
  <2>3. cursor'.seq <= Len(rows')
    BY <1>b, <2>2
  <2>4. QED
    BY <1>b, <2>1, <2>3
<1>2. Exclusive'
  BY <1>a, <1>b 
<1>3. Aligned'
  BY <1>a, <1>b DEF Aligned
<1>4. Projecting'
  BY <1>a, <1>b DEF Projecting
<1>5. Importing'
  BY <1>a, <1>b DEF Importing
<1>6. NoDebrisAfterCatchUp'
  BY <1>a, <1>b DEF NoDebrisAfterCatchUp
<1>7. LegacyEventsSurvive'
  <2>1. Len(legacy) \in Nat
    OBVIOUS
  <2>2. ~removed => /\ legacy # <<>> => backup # "none"
                    /\ \A k \in 1..(Len(legacy) - Len(raw)) :
                           Parsed[legacy[k]] = Malformed \/ InSeq(Parsed[legacy[k]], pending)
    BY DEF Importing
  <2>3. Len(legacy) - Len(raw) = Len(legacy)
    BY <1>a, <2>1
  <2>4. QED
    BY <1>b, <2>2, <2>3 DEF LegacyEventsSurvive
<1>8. QED
  BY <1>1, <1>2, <1>3, <1>4, <1>5, <1>6, <1>7

\* The event is in the table, behind every row that was there.
LEMMA InsertInv ==
  ASSUME JournalInv, NEW w \in Writers, Insert(w)
  PROVE  JournalInv'
<1> USE JournalAssumption DEF JournalInv, JournalTypeOK, Exclusive, Initialized, injury
<1>a. event[w] \in Events /\ Distinct(rows)
  BY DEF Insert, Aligned
<1>b. /\ rows' \in Seq(Events) /\ Distinct(rows') /\ Len(rows') >= Len(rows)
      /\ \A k \in 1..Len(rows) : rows'[k] = rows[k]
      /\ \A x : InSeq(x, rows) => InSeq(x, rows')
      /\ InSeq(event[w], rows') /\ (rows' = rows \/ Len(rows') = Len(rows) + 1)
  <2>1. PICK r, e : r = rows' /\ e = event[w]
    OBVIOUS
  <2>2. r = InsertOrIgnore(rows, e) /\ e \in Events
    BY <1>a, <2>1 DEF Insert
  <2>3. /\ r \in Seq(Events) /\ Distinct(r) /\ Len(r) >= Len(rows)
        /\ \A k \in 1..Len(rows) : r[k] = rows[k]
        /\ \A x : InSeq(x, rows) => InSeq(x, r)
        /\ InSeq(e, r) /\ (r = rows \/ Len(r) = Len(rows) + 1)
    <3>1. rows \in Seq(Events)
      OBVIOUS
    <3>2. QED
      BY ONLY <3>1, <1>a, <2>2, InsertFacts
  <2>4. QED
    BY <2>1, <2>3
<1>c. /\ at[w] = "insert" /\ lock = NoWriter /\ at' = [at EXCEPT ![w] = "project"]
      /\ UNCHANGED <<cursor, file, backup, lock, event, raw, pending, batch, unlinked, faults, removed, legacy>>
  BY DEF Insert, Goto, locals, injury
<1>d. Len(rows) \in Nat /\ Len(rows') \in Nat /\ cursor.seq \in Nat /\ cursor.offset \in Nat /\ cursor.seq <= Len(rows)
  BY <1>b, <1>c
<1>1. JournalTypeOK'
  BY <1>b, <1>c, <1>d DEF Lines
<1>2. Exclusive'
  BY <1>b, <1>c, <1>d 
<1>3. Aligned'
  BY <1>b, <1>c, <1>d DEF Aligned
<1>4. Projecting'
  BY <1>b, <1>c, <1>d DEF Projecting
<1>5. Importing'
  BY <1>b, <1>c, <1>d DEF Importing
<1>6. NoDebrisAfterCatchUp'
  <2>1. CASE rows' = rows
    BY <2>1, <1>c DEF NoDebrisAfterCatchUp
  <2>2. CASE Len(rows') = Len(rows) + 1
    BY <2>2, <1>c, <1>d DEF NoDebrisAfterCatchUp
  <2>3. QED
    BY <1>b, <2>1, <2>2
<1>7. LegacyEventsSurvive'
  BY <1>b, <1>c, <1>d DEF LegacyEventsSurvive
<1>8. QED
  BY <1>1, <1>2, <1>3, <1>4, <1>5, <1>6, <1>7

\* The call returns.
LEMMA ProjectNothingInv ==
  ASSUME JournalInv, NEW w \in Writers, ProjectNothing(w)
  PROVE  JournalInv'
<1> USE JournalAssumption DEF JournalInv, JournalTypeOK, Exclusive, Initialized, ProjectNothing, Goto, locals, injury
<1>1. JournalTypeOK'
  BY DEF Lines
<1>2. Exclusive'
  OBVIOUS
<1>3. Aligned'
  BY DEF Aligned
<1>4. Projecting'
  BY DEF Projecting
<1>5. Importing'
  BY DEF Importing
<1>6. NoDebrisAfterCatchUp'
  BY DEF NoDebrisAfterCatchUp
<1>7. LegacyEventsSurvive'
  BY DEF LegacyEventsSurvive
<1>8. QED
  BY <1>1, <1>2, <1>3, <1>4, <1>5, <1>6, <1>7

\* The projection starts again.
LEMMA ProjectRebuildInv ==
  ASSUME JournalInv, NEW w \in Writers, ProjectRebuild(w)
  PROVE  JournalInv'
<1> USE JournalAssumption DEF JournalInv, JournalTypeOK, Exclusive, Initialized, ProjectRebuild, locals, injury
<1>1. JournalTypeOK'
  BY DEF Lines
<1>2. Exclusive'
  OBVIOUS
<1>3. Aligned'
  BY DEF Aligned
<1>4. Projecting'
  BY DEF Projecting
<1>5. Importing'
  BY DEF Importing
<1>6. NoDebrisAfterCatchUp'
  BY DEF NoDebrisAfterCatchUp
<1>7. LegacyEventsSurvive'
  BY DEF LegacyEventsSurvive
<1>8. QED
  BY <1>1, <1>2, <1>3, <1>4, <1>5, <1>6, <1>7

\* A batch is the run of rows behind the cursor.
LEMMA ProjectReadInv ==
  ASSUME JournalInv, NEW w \in Writers, ProjectRead(w)
  PROVE  JournalInv'
<1> USE JournalAssumption DEF JournalInv, JournalTypeOK, Exclusive, Initialized, injury
<1>a. /\ at[w] = "project" /\ lock = NoWriter /\ lock' = w /\ at' = [at EXCEPT ![w] = "write"]
      /\ cursor.seq < Len(rows) /\ Len(file) >= cursor.offset
      /\ UNCHANGED <<rows, cursor, file, backup, event, raw, pending, unlinked, faults, removed, legacy>>
  BY DEF ProjectRead, Goto
<1>b. Len(rows) \in Nat /\ cursor.seq \in Nat
  BY <1>a
<1>c. /\ batch' \in Seq(Events) /\ Len(batch') >= 1 /\ cursor.seq + Len(batch') <= Len(rows)
      /\ \A k \in 1..Len(batch') : batch'[k] = rows[cursor.seq + k]
  <2> DEFINE i == cursor.seq + 1
             j == IF cursor.seq + BatchLimit < Len(rows) THEN cursor.seq + BatchLimit ELSE Len(rows)
  <2>1. i \in Nat \ {0} /\ j \in 0..Len(rows) /\ i <= j
    BY <1>a, <1>b
  <2>2. batch' = SubSeq(rows, i, j)
    BY DEF ProjectRead
  <2>a. i = cursor.seq + 1
    OBVIOUS
  <2> HIDE DEF i, j
  <2>3. i \in Int /\ j \in Int /\ \A k \in i..j : rows[k] \in Events
    BY <2>1, <1>b
  <2>4. Len(SubSeq(rows, i, j)) = j - i + 1
    BY <2>1, <2>3, SubSeqProperties
  <2>5. \A k \in 1..(j - i + 1) : SubSeq(rows, i, j)[k] = rows[i + k - 1]
    BY <2>3, SubSeqProperties
  <2>6. SubSeq(rows, i, j) \in Seq(Events)
    BY <2>3, SubSeqProperties
  <2>7. Len(batch') = j - i + 1 /\ Len(batch') >= 1 /\ cursor.seq + Len(batch') <= Len(rows)
    BY <2>1, <2>2, <2>4, <2>a, <1>b
  <2>8. \A k \in 1..Len(batch') : batch'[k] = rows[cursor.seq + k]
    <3>1. \A k \in Int : i + k - 1 = cursor.seq + k
      BY ONLY <2>a, <1>b
    <3>2. QED
      <4>1. PICK b : b = batch'
        OBVIOUS
      <4>2. Len(b) = j - i + 1 /\ \A k \in 1..(j - i + 1) : b[k] = rows[i + k - 1]
        BY <4>1, <2>2, <2>5, <2>7
      <4>3. \A k \in 1..Len(b) : b[k] = rows[cursor.seq + k]
        <5> TAKE k \in 1..Len(b)
        <5>1. k \in 1..(j - i + 1) /\ k \in Int
          BY <4>2, <2>1
        <5>2. i + k - 1 = cursor.seq + k
          BY <5>1, <3>1
        <5>3. b[k] = rows[i + k - 1]
          BY <5>1, <4>2
        <5>4. QED
          BY <5>2, <5>3
      <4>4. QED
        BY <4>1, <4>3
  <2>9. QED
    BY <2>2, <2>6, <2>7, <2>8
<1>1. JournalTypeOK'
  BY <1>a, <1>b, <1>c DEF Lines
<1>2. Exclusive'
  BY <1>a, <1>b, <1>c 
<1>3. Aligned'
  BY <1>a, <1>b, <1>c DEF Aligned
<1>4. Projecting'
  BY <1>a, <1>b, <1>c DEF Projecting
<1>5. Importing'
  BY <1>a, <1>b, <1>c DEF Importing
<1>6. NoDebrisAfterCatchUp'
  BY <1>a, <1>b, <1>c DEF NoDebrisAfterCatchUp
<1>7. LegacyEventsSurvive'
  BY <1>a, <1>b, <1>c DEF LegacyEventsSurvive
<1>8. QED
  BY <1>1, <1>2, <1>3, <1>4, <1>5, <1>6, <1>7

\* The batch is in the file and ends it, or in a file that is gone.
LEMMA ProjectWriteInv ==
  ASSUME JournalInv, NEW w \in Writers, ProjectWrite(w)
  PROVE  JournalInv'
<1> USE JournalAssumption DEF JournalInv, JournalTypeOK, Exclusive, Initialized, injury
<1>a. /\ at[w] = "write" /\ lock = w /\ at' = [at EXCEPT ![w] = "commit"]
      /\ UNCHANGED <<rows, cursor, backup, lock, event, raw, pending, batch, unlinked, faults, removed, legacy>>
  BY DEF ProjectWrite, Goto, locals
<1>b. /\ Len(batch) >= 1 /\ cursor.seq + Len(batch) <= Len(rows) /\ cursor.offset = cursor.seq
      /\ \A k \in 1..Len(batch) : batch[k] = rows[cursor.seq + k]
      /\ unlinked \/ (Len(file) >= cursor.offset /\ \A k \in 1..cursor.offset : file[k] = rows[k])
      /\ unlinked => file = <<>>
  BY <1>a DEF Projecting, Aligned
<1>c. Len(rows) \in Nat /\ Len(file) \in Nat /\ Len(batch) \in Nat /\ cursor.seq \in Nat
  BY <1>a
<1>e. /\ file' \in Seq(Lines)
      /\ ~unlinked => /\ Len(file') = cursor.seq + Len(batch)
                      /\ \A k \in 1..Len(file') : file'[k] = rows[k]
      /\ unlinked => file' = <<>>
  <2>1. CASE unlinked
    BY <1>b, <2>1 DEF ProjectWrite
  <2>2. CASE ~unlinked
    <3>1. file \in Seq(Lines) /\ batch \in Seq(Lines) /\ cursor.seq \in 0..Len(file)
      BY <2>2, <1>b, <1>c DEF Lines
    <3>2. file' = SubSeq(file, 1, cursor.seq) \o batch
      BY <2>2, <1>b DEF ProjectWrite
    <3>3. /\ file' \in Seq(Lines) /\ Len(file') = cursor.seq + Len(batch)
          /\ \A k \in 1..cursor.seq : file'[k] = file[k]
          /\ \A k \in 1..Len(batch) : file'[cursor.seq + k] = batch[k]
      <4>1. PICK f : f = file'
        OBVIOUS
      <4>2. PICK g, b, n : g = file /\ b = batch /\ n = cursor.seq
        OBVIOUS
      <4>3. f = SubSeq(g, 1, n) \o b /\ g \in Seq(Lines) /\ b \in Seq(Lines) /\ n \in 0..Len(g)
        BY <3>1, <3>2, <4>1, <4>2
      <4>4. /\ f \in Seq(Lines) /\ Len(f) = n + Len(b)
            /\ \A k \in 1..n : f[k] = g[k]
            /\ \A k \in 1..Len(b) : f[n + k] = b[k]
        <5>1. /\ SubSeq(g, 1, n) \o b \in Seq(Lines)
              /\ Len(SubSeq(g, 1, n) \o b) = n + Len(b)
              /\ \A k \in 1..n : (SubSeq(g, 1, n) \o b)[k] = g[k]
              /\ \A k \in 1..Len(b) : (SubSeq(g, 1, n) \o b)[n + k] = b[k]
          BY ONLY <4>3, PrefixConcat
        <5>2. QED
          BY ONLY <5>1, <4>3, Zenon
      <4>5. QED
        BY <4>1, <4>2, <4>4
    <3>4. \A k \in 1..Len(file') : file'[k] = rows[k]
      <4>1. SUFFICES ASSUME NEW k \in 1..(cursor.seq + Len(batch)) PROVE file'[k] = rows[k]
        BY <3>3
      <4>2. CASE k <= cursor.seq
        <5>1. k \in 1..cursor.seq
          BY ONLY <4>1, <4>2, <1>c
        <5>2. QED
          BY ONLY <5>1, <2>2, <3>3, <1>b
      <4>3. CASE k > cursor.seq
        <5>1. PICK i \in 1..Len(batch) : k = cursor.seq + i
          <6>1. k - cursor.seq \in 1..Len(batch) /\ k = cursor.seq + (k - cursor.seq)
            BY <4>3, <1>c
          <6>2. QED
            BY <6>1
        <5>2. QED
          BY <5>1, <3>3, <1>b
      <4>4. QED
        BY <4>2, <4>3, <1>c
    <3>5. QED
      BY <2>2, <3>3, <3>4
  <2>3. QED
    BY <2>1, <2>2
<1>f. cursor.seq < Len(rows)
  BY <1>b, <1>c
<1>1. JournalTypeOK'
  BY <1>a, <1>b, <1>c, <1>e, <1>f DEF Lines
<1>2. Exclusive'
  BY <1>a, <1>b, <1>c, <1>e, <1>f 
<1>3. Aligned'
  BY <1>a, <1>b, <1>c, <1>e, <1>f DEF Aligned
<1>4. Projecting'
  BY <1>a, <1>b, <1>c, <1>e, <1>f DEF Projecting
<1>5. Importing'
  BY <1>a, <1>b, <1>c, <1>e, <1>f DEF Importing
<1>6. NoDebrisAfterCatchUp'
  BY <1>a, <1>b, <1>c, <1>e, <1>f DEF NoDebrisAfterCatchUp
<1>7. LegacyEventsSurvive'
  BY <1>a, <1>b, <1>c, <1>e, <1>f DEF LegacyEventsSurvive
<1>8. QED
  BY <1>1, <1>2, <1>3, <1>4, <1>5, <1>6, <1>7

\* The projection row follows the file.
LEMMA ProjectCommitInv ==
  ASSUME JournalInv, NEW w \in Writers, ProjectCommit(w)
  PROVE  JournalInv'
<1> USE JournalAssumption DEF JournalInv, JournalTypeOK, Exclusive, Initialized, injury
<1>a. /\ at[w] = "commit" /\ lock = w /\ at' = [at EXCEPT ![w] = "project"] /\ lock' = NoWriter
      /\ cursor' = [seq |-> cursor.seq + Len(batch), offset |-> cursor.offset + Len(batch)]
      /\ raw' = <<>> /\ pending' = <<>> /\ batch' = <<>> /\ unlinked' = FALSE
      /\ UNCHANGED <<rows, file, backup, event, faults, removed, legacy>>
  BY DEF ProjectCommit, Goto, Unlock
<1>b. Len(rows) \in Nat /\ Len(file) \in Nat /\ Len(batch) \in Nat /\ cursor.seq \in Nat /\ cursor.offset \in Nat
  BY <1>a
<1>c. /\ Len(batch) >= 1 /\ cursor.seq + Len(batch) <= Len(rows) /\ cursor.offset = cursor.seq
      /\ unlinked \/ (Len(file) = cursor.seq + Len(batch) /\ \A k \in 1..Len(file) : file[k] = rows[k])
      /\ unlinked => file = <<>>
  BY <1>a DEF Projecting, Aligned
<1>d. /\ cursor' \in [seq : Nat \cup {-1}, offset : Nat] /\ cursor'.seq = cursor.seq + Len(batch)
      /\ cursor'.offset = cursor'.seq /\ cursor'.seq \in Nat /\ cursor'.seq <= Len(rows)
  BY <1>a, <1>b, <1>c
<1>e. \/ file = <<>> /\ Len(file) = 0
      \/ Len(file) = cursor'.seq /\ \A k \in 1..Len(file) : file[k] = rows[k]
  BY <1>c, <1>d
<1>g. << >> \in Seq(Lines) /\ << >> \in Seq(Events) /\ Len(<< >>) = 0
  OBVIOUS
<1>1. JournalTypeOK'
  BY <1>a, <1>b, <1>d, <1>e, <1>g DEF Lines
<1>2. Exclusive'
  BY <1>a, <1>b, <1>d, <1>e, <1>g 
<1>3. Aligned'
  <2>1. Distinct(pending')
    BY <1>a DEF Distinct
  <2>2. QED
    BY <2>1, <1>a, <1>b, <1>d, <1>e DEF Aligned
<1>4. Projecting'
  BY <1>a, <1>b, <1>d, <1>e, <1>g DEF Projecting
<1>5. Importing'
  BY <1>a, <1>b, <1>d, <1>e, <1>g DEF Importing
<1>6. NoDebrisAfterCatchUp'
  BY <1>a, <1>b, <1>d, <1>e, <1>g DEF NoDebrisAfterCatchUp
<1>7. LegacyEventsSurvive'
  BY <1>a, <1>b, <1>d, <1>e, <1>g DEF LegacyEventsSurvive
<1>8. QED
  BY <1>1, <1>2, <1>3, <1>4, <1>5, <1>6, <1>7

\* An interrupted file operation leaves the file as it was up to the committed
\* offset, and touches nothing before the import of the legacy file is committed.
LEMMA InterruptFacts ==
  ASSUME JournalInv, NEW v \in Writers, lock = v, Interrupt(v)
  PROVE  /\ file' \in Seq(Lines) /\ backup' \in {"none", "torn", "full"}
         /\ backup # "none" => backup' # "none"
         /\ \/ file' = file
            \/ /\ Initialized /\ cursor.seq < Len(rows) /\ Len(file) >= cursor.offset
               /\ Len(file') >= cursor.offset /\ \A k \in 1..cursor.offset : file'[k] = file[k]
<1> USE DEF JournalInv
<1>1. backup' \in {"none", "torn", "full"} /\ (backup # "none" => backup' # "none")
  BY DEF Interrupt, JournalTypeOK
<1>2. CASE file' = file
  BY <1>1, <1>2 DEF JournalTypeOK
<1>3. CASE file' # file
  <2>1. at[v] = "write" /\ ~unlinked /\ file' \in Torn
    BY <1>3 DEF Interrupt
  <2>2. Initialized /\ Len(file) >= cursor.offset /\ Len(batch) >= 1 /\ cursor.seq + Len(batch) <= Len(rows)
    BY <2>1 DEF Exclusive, Projecting
  <2>3. PICK f : f = file'
    OBVIOUS
  <2>4. f \in Seq(Lines) /\ Len(f) >= cursor.offset /\ \A k \in 1..cursor.offset : f[k] = file[k]
    BY <2>1, <2>2, <2>3, TornFacts
  <2>5. cursor.seq < Len(rows)
    BY <2>2 DEF JournalTypeOK, Initialized
  <2>6. QED
    BY <1>1, <2>2, <2>3, <2>4, <2>5
<1>4. QED
  BY <1>2, <1>3

\* An exception rolls the transaction back.
LEMMA RaiseInv ==
  ASSUME JournalInv, NEW w \in Writers, Raise(w)
  PROVE  JournalInv'
<1> USE JournalAssumption DEF JournalInv, JournalTypeOK, Exclusive, Initialized
<1>a. /\ at[w] # "idle" /\ at' = [at EXCEPT ![w] = "idle"] /\ event' = [event EXCEPT ![w] = NoEvent]
      /\ UNCHANGED <<rows, cursor, removed, legacy>> /\ faults < MaxFaults /\ faults' = faults + 1
      /\ \/ lock = w /\ lock' = NoWriter /\ raw' = <<>> /\ pending' = <<>> /\ batch' = <<>> /\ unlinked' = FALSE
         \/ lock # w /\ UNCHANGED <<file, backup, lock, raw, pending, batch, unlinked>>
  BY DEF Raise, Goto, Unlock, Fault, locals
<1>b. /\ file' \in Seq(Lines) /\ backup' \in {"none", "torn", "full"}
      /\ backup # "none" => backup' # "none"
      /\ \/ file' = file
         \/ /\ Initialized /\ cursor.seq < Len(rows) /\ Len(file) >= cursor.offset
            /\ Len(file') >= cursor.offset /\ \A k \in 1..cursor.offset : file'[k] = file[k]
  <2>1. CASE lock = w
    BY <2>1, InterruptFacts DEF Raise
  <2>2. CASE lock # w
    BY <2>2, <1>a
  <2>3. QED
    BY <2>1, <2>2
<1>c. << >> \in Seq(Lines) /\ << >> \in Seq(Events) /\ Len(<< >>) = 0
  OBVIOUS
<1>d. Len(rows) \in Nat /\ Len(file) \in Nat /\ cursor.seq \in Nat \cup {-1} /\ cursor.offset \in Nat /\ cursor.seq <= Len(rows)
  OBVIOUS
<1>e. Initialized /\ Len(file') >= cursor.offset => \A k \in 1..cursor.offset : file'[k] = rows[k]
  BY <1>b, <1>d DEF Aligned
<1>1. JournalTypeOK'
  <2>1. rows' \in Seq(Events) /\ pending' \in Seq(Events) /\ batch' \in Seq(Events) /\ raw' \in Seq(Lines)
    BY <1>a, <1>c
  <2>2. faults' \in 0..MaxFaults
    BY <1>a
  <2>a. removed' \in BOOLEAN /\ unlinked' \in BOOLEAN
    <3>1. removed \in BOOLEAN /\ unlinked \in BOOLEAN
      OBVIOUS
    <3>2. QED
      BY ONLY <3>1, <1>a, Zenon
  <2>3. lock' \in Writers \cup {NoWriter} /\ event' \in [Writers -> Events \cup {NoEvent}]
    BY <1>a
  <2>4. at' \in [Writers -> {"idle", "initialize", "backup", "import", "insert", "project", "write", "commit"}]
    BY <1>a
  <2>5. cursor' = cursor /\ rows' = rows /\ legacy' = legacy
    BY <1>a
  <2>6. QED
    BY <1>b, <2>a, <2>1, <2>2, <2>3, <2>4, <2>5
<1>2. Exclusive'
  BY <1>a, <1>b, <1>c, <1>d 
<1>3. Aligned'
  <2>1. Distinct(pending')
    BY <1>a, <1>c DEF Aligned, Distinct
  <2>2. QED
    BY <2>1, <1>a, <1>b, <1>d, <1>e DEF Aligned
<1>4. Projecting'
  BY <1>a, <1>b, <1>c, <1>d DEF Projecting
<1>5. Importing'
  <2>1. ~Initialized => file' = file
    BY <1>b
  <2>2. \A v \in Writers : at'[v] \in {"backup", "import"} => at'[v] = at[v] /\ UNCHANGED <<file, backup, raw, pending>>
    BY <1>a
  <2>3. cursor' = cursor /\ removed' = removed /\ legacy' = legacy
    BY <1>a
  <2>4. SUFFICES ASSUME ~removed PROVE Importing'
    BY <2>3 DEF Importing
  <2>5. ~Initialized' => file' = legacy'
    BY <2>1, <2>3, <2>4 DEF Importing
  <2>6. \A v \in Writers : at'[v] = "backup" => raw' = legacy
    BY <2>2, <2>4 DEF Importing
  <2>7. \A v \in Writers : at'[v] = "import" =>
               /\ legacy # <<>> => backup' # "none"
               /\ Len(raw') <= Len(legacy)
               /\ \A k \in 1..Len(raw') : raw'[k] = legacy[Len(legacy) - Len(raw') + k]
               /\ \A k \in 1..(Len(legacy) - Len(raw')) :
                      Parsed[legacy[k]] = Malformed \/ InSeq(Parsed[legacy[k]], pending')
    <3>1. SUFFICES ASSUME NEW v \in Writers, at'[v] = "import"
                   PROVE  /\ legacy # <<>> => backup' # "none"
                          /\ Len(raw') <= Len(legacy)
                          /\ \A k \in 1..Len(raw') : raw'[k] = legacy[Len(legacy) - Len(raw') + k]
                          /\ \A k \in 1..(Len(legacy) - Len(raw')) :
                                 Parsed[legacy[k]] = Malformed \/ InSeq(Parsed[legacy[k]], pending')
      OBVIOUS
    <3>2. at[v] = "import" /\ backup' = backup /\ raw' = raw /\ pending' = pending
      BY <2>2, <3>1
    <3>3. QED
      BY ONLY <2>4, <3>2, Importing DEF Importing
  <2>8. QED
    BY <2>3, <2>5, <2>6, <2>7 DEF Importing
<1>6. NoDebrisAfterCatchUp'
  BY <1>a, <1>b, <1>c, <1>d DEF NoDebrisAfterCatchUp
<1>7. LegacyEventsSurvive'
  <2>1. CASE file' = file
    BY <2>1, <1>a, <1>b DEF LegacyEventsSurvive
  <2>2. CASE file' # file
    BY <2>2, <1>a, <1>b DEF LegacyEventsSurvive
  <2>3. QED
    BY <2>1, <2>2
<1>8. QED
  BY <1>1, <1>2, <1>3, <1>4, <1>5, <1>6, <1>7

\* The process dies.
LEMMA CrashInv ==
  ASSUME JournalInv, JournalCrash
  PROVE  JournalInv'
<1> USE JournalAssumption DEF JournalInv, JournalTypeOK, Exclusive, Initialized
<1>a. /\ at' = [v \in Writers |-> "idle"] /\ event' = [v \in Writers |-> NoEvent]
      /\ UNCHANGED <<rows, cursor, removed, legacy>> /\ faults < MaxFaults /\ faults' = faults + 1
      /\ lock' = NoWriter /\ raw' = <<>> /\ pending' = <<>> /\ batch' = <<>> /\ unlinked' = FALSE
  BY DEF JournalCrash, Unlock, Fault
<1>b. /\ file' \in Seq(Lines) /\ backup' \in {"none", "torn", "full"}
      /\ backup # "none" => backup' # "none"
      /\ \/ file' = file
         \/ /\ Initialized /\ cursor.seq < Len(rows) /\ Len(file) >= cursor.offset
            /\ Len(file') >= cursor.offset /\ \A k \in 1..cursor.offset : file'[k] = file[k]
  <2>1. CASE lock = NoWriter
    BY <2>1 DEF JournalCrash
  <2>2. CASE lock # NoWriter
    <3>1. lock \in Writers /\ Interrupt(lock)
      BY <2>2 DEF JournalCrash
    <3>2. PICK v \in Writers : lock = v
      BY <3>1
    <3>3. Interrupt(v)
      BY <3>1, <3>2
    <3>4. QED
      BY <3>2, <3>3, InterruptFacts
  <2>3. QED
    BY <2>1, <2>2
<1>c. << >> \in Seq(Lines) /\ << >> \in Seq(Events) /\ Len(<< >>) = 0
  OBVIOUS
<1>d. Len(rows) \in Nat /\ Len(file) \in Nat /\ cursor.seq \in Nat \cup {-1} /\ cursor.offset \in Nat /\ cursor.seq <= Len(rows)
  OBVIOUS
<1>e. Initialized /\ Len(file') >= cursor.offset => \A k \in 1..cursor.offset : file'[k] = rows[k]
  BY <1>b, <1>d DEF Aligned
<1>1. JournalTypeOK'
  <2>1. rows' \in Seq(Events) /\ pending' \in Seq(Events) /\ batch' \in Seq(Events) /\ raw' \in Seq(Lines)
    BY <1>a, <1>c
  <2>2. faults' \in 0..MaxFaults
    BY <1>a
  <2>a. removed' \in BOOLEAN /\ unlinked' \in BOOLEAN
    <3>1. removed \in BOOLEAN /\ unlinked \in BOOLEAN
      OBVIOUS
    <3>2. QED
      BY ONLY <3>1, <1>a, Zenon
  <2>3. lock' \in Writers \cup {NoWriter} /\ event' \in [Writers -> Events \cup {NoEvent}]
    BY <1>a
  <2>4. at' \in [Writers -> {"idle", "initialize", "backup", "import", "insert", "project", "write", "commit"}]
    BY <1>a
  <2>5. cursor' = cursor /\ rows' = rows /\ legacy' = legacy
    BY <1>a
  <2>6. QED
    BY <1>b, <2>a, <2>1, <2>2, <2>3, <2>4, <2>5
<1>2. Exclusive'
  BY <1>a, <1>b, <1>c, <1>d 
<1>3. Aligned'
  <2>1. Distinct(pending')
    BY <1>a, <1>c DEF Aligned, Distinct
  <2>2. QED
    BY <2>1, <1>a, <1>b, <1>d, <1>e DEF Aligned
<1>4. Projecting'
  BY <1>a, <1>b, <1>c, <1>d DEF Projecting
<1>5. Importing'
  <2>1. ~Initialized => file' = file
    BY <1>b
  <2>2. \A v \in Writers : at'[v] \in {"backup", "import"} => at'[v] = at[v] /\ UNCHANGED <<file, backup, raw, pending>>
    BY <1>a
  <2>3. cursor' = cursor /\ removed' = removed /\ legacy' = legacy
    BY <1>a
  <2>4. SUFFICES ASSUME ~removed PROVE Importing'
    BY <2>3 DEF Importing
  <2>5. ~Initialized' => file' = legacy'
    BY <2>1, <2>3, <2>4 DEF Importing
  <2>6. \A v \in Writers : at'[v] = "backup" => raw' = legacy
    BY <2>2, <2>4 DEF Importing
  <2>7. \A v \in Writers : at'[v] = "import" =>
               /\ legacy # <<>> => backup' # "none"
               /\ Len(raw') <= Len(legacy)
               /\ \A k \in 1..Len(raw') : raw'[k] = legacy[Len(legacy) - Len(raw') + k]
               /\ \A k \in 1..(Len(legacy) - Len(raw')) :
                      Parsed[legacy[k]] = Malformed \/ InSeq(Parsed[legacy[k]], pending')
    <3>1. SUFFICES ASSUME NEW v \in Writers, at'[v] = "import"
                   PROVE  /\ legacy # <<>> => backup' # "none"
                          /\ Len(raw') <= Len(legacy)
                          /\ \A k \in 1..Len(raw') : raw'[k] = legacy[Len(legacy) - Len(raw') + k]
                          /\ \A k \in 1..(Len(legacy) - Len(raw')) :
                                 Parsed[legacy[k]] = Malformed \/ InSeq(Parsed[legacy[k]], pending')
      OBVIOUS
    <3>2. at[v] = "import" /\ backup' = backup /\ raw' = raw /\ pending' = pending
      BY <2>2, <3>1
    <3>3. QED
      BY ONLY <2>4, <3>2, Importing DEF Importing
  <2>8. QED
    BY <2>3, <2>5, <2>6, <2>7 DEF Importing
<1>6. NoDebrisAfterCatchUp'
  BY <1>a, <1>b, <1>c, <1>d DEF NoDebrisAfterCatchUp
<1>7. LegacyEventsSurvive'
  <2>1. CASE file' = file
    BY <2>1, <1>a, <1>b DEF LegacyEventsSurvive
  <2>2. CASE file' # file
    BY <2>2, <1>a, <1>b DEF LegacyEventsSurvive
  <2>3. QED
    BY <2>1, <2>2
<1>8. QED
  BY <1>1, <1>2, <1>3, <1>4, <1>5, <1>6, <1>7

\* The file is gone: a handle that is open on it writes to nowhere.
LEMMA RemoveInv ==
  ASSUME JournalInv, Remove
  PROVE  JournalInv'
<1> USE JournalAssumption DEF JournalInv, JournalTypeOK, Exclusive, Initialized, Remove, Fault
<1>1. JournalTypeOK'
  BY DEF Lines
<1>2. Exclusive'
  OBVIOUS
<1>3. Aligned'
  BY DEF Aligned
<1>4. Projecting'
  <2>1. \A v \in Writers : at[v] \in {"write", "commit"} => unlinked'
    <3>1. \A v \in Writers : at[v] \in {"write", "commit"} => lock # NoWriter
      OBVIOUS
    <3>2. unlinked' = (lock # NoWriter)
      OBVIOUS
    <3>3. QED
      BY ONLY <3>1, <3>2, Zenon
  <2>2. file' = <<>>
    OBVIOUS
  <2>3. QED
    BY <2>1, <2>2 DEF Projecting
<1>5. Importing'
  BY DEF Importing
<1>6. NoDebrisAfterCatchUp'
  BY DEF NoDebrisAfterCatchUp
<1>7. LegacyEventsSurvive'
  BY DEF LegacyEventsSurvive
<1>8. QED
  BY <1>1, <1>2, <1>3, <1>4, <1>5, <1>6, <1>7

-----------------------------------------------------------------------------
(* The theorems. *)

\* The first start finds a legacy file, or none.
LEMMA JournalInitInv == JournalInit => JournalInv
<1> SUFFICES ASSUME JournalInit PROVE JournalInv
  OBVIOUS
<1> USE JournalAssumption DEF JournalInit
<1>1. JournalTypeOK
  <2>1. << >> \in Seq(Events) /\ << >> \in Seq(Lines) /\ Len(<< >>) = 0
    OBVIOUS
  <2>2. legacy \in Seq(Lines)
    BY DEF Lines
  <2>3. cursor \in [seq : Nat \cup {-1}, offset : Nat] /\ cursor.seq <= 0
    OBVIOUS
  <2>4. 0 \in 0..MaxFaults
    OBVIOUS
  <2>5. QED
    BY <2>1, <2>2, <2>3, <2>4 DEF JournalTypeOK
<1>2. cursor.seq = -1 /\ ~Initialized /\ Distinct(<<>>)
  BY DEF Initialized, Distinct
<1>3. Exclusive /\ Aligned /\ Projecting
  BY <1>2 DEF Exclusive, Aligned, Projecting
<1>4. Importing /\ NoDebrisAfterCatchUp /\ LegacyEventsSurvive
  BY <1>2 DEF Importing, NoDebrisAfterCatchUp, LegacyEventsSurvive
<1>5. QED
  BY <1>1, <1>3, <1>4 DEF JournalInv

\* One case per action.
LEMMA JournalStepInv == JournalInv /\ [JournalNext]_jvars => JournalInv'
<1> SUFFICES ASSUME JournalInv, [JournalNext]_jvars PROVE JournalInv'
  OBVIOUS
<1>1. CASE UNCHANGED jvars
  BY <1>1 DEF jvars, JournalInv, JournalTypeOK, Exclusive, Aligned, Projecting, Importing,
              NoDebrisAfterCatchUp, LegacyEventsSurvive, Initialized
<1>2. ASSUME NEW w \in Writers, NEW e \in Events, AppendEvent(w, e) PROVE JournalInv'
  BY <1>2, AppendEventInv
<1>3. ASSUME NEW w \in Writers, JournalStep(w) PROVE JournalInv'
  BY <1>3, InitializeBeginInv, WriteBackupInv, ImportLineInv, ImportRaisesInv, InitializeCommitInv, InsertInv,
     ProjectNothingInv, ProjectRebuildInv, ProjectReadInv, ProjectWriteInv, ProjectCommitInv DEF JournalStep
<1>4. ASSUME NEW w \in Writers, Raise(w) PROVE JournalInv'
  BY <1>4, RaiseInv
<1>5. QED
  BY <1>1, <1>2, <1>3, <1>4, CrashInv, RemoveInv DEF JournalNext

\* The inductive invariant holds in every behaviour.
LEMMA JournalInvariant == JournalSpec => []JournalInv
  BY JournalInitInv, JournalStepInv, PTL DEF JournalSpec

\* Type correctness of the journal: the committed cursor never passes the table.
THEOREM JournalTypeCorrect == JournalSpec => []JournalTypeOK
<1>1. JournalInv => JournalTypeOK
  BY DEF JournalInv
<1>2. QED
  BY <1>1, JournalInvariant, PTL

\* The projection row never vouches for a file that says something else, whatever
\* is interrupted, repeated or removed, with any number of writers.
THEOREM JournalProjectionFaithful == JournalSpec => []ProjectionFaithful
<1>1. JournalInv => ProjectionFaithful
  <2> SUFFICES ASSUME JournalInv, Initialized, Len(file) >= cursor.offset
               PROVE  /\ cursor.offset = cursor.seq
                      /\ \A k \in 1..cursor.offset : file[k] = rows[k]
                      /\ \A j, k \in 1..cursor.offset : file[j] = file[k] => j = k
    BY DEF ProjectionFaithful
  <2>1. cursor.offset = cursor.seq /\ (\A k \in 1..cursor.offset : file[k] = rows[k]) /\ Distinct(rows)
    BY DEF JournalInv, Aligned
  <2>2. cursor.seq <= Len(rows) /\ cursor.seq \in Nat /\ Len(rows) \in Nat
    BY DEF JournalInv, JournalTypeOK, Initialized
  <2>3. QED
    BY <2>1, <2>2 DEF Distinct
<1>2. QED
  BY <1>1, JournalInvariant, PTL

\* A finished projection holds nothing behind the last event.
THEOREM JournalNoDebris == JournalSpec => []NoDebrisAfterCatchUp
<1>1. JournalInv => NoDebrisAfterCatchUp
  BY DEF JournalInv
<1>2. QED
  BY <1>1, JournalInvariant, PTL

\* Whatever file the first start finds and wherever it is interrupted: the events of
\* the file are in the table before anything overwrites it, and a file with a line
\* that cannot be encoded is never overwritten.
THEOREM JournalLegacyEventsSurvive == JournalSpec => []LegacyEventsSurvive
<1>1. JournalInv => LegacyEventsSurvive
  BY DEF JournalInv
<1>2. QED
  BY <1>1, JournalInvariant, PTL
================================================================================
