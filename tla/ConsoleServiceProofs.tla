-------------------------- MODULE ConsoleServiceProofs --------------------------
(***************************************************************************)
(* Proofs about ConsoleService, for any processes, modules and clients.    *)
(***************************************************************************)
EXTENDS ConsoleService, TLAPS, SequenceTheorems

(* What makes OneJobPerRecord inductive: the id of a module leads to one of *)
(* the records, which enable() and disable() then read and write.           *)
Entries ==
  \A p \in Process :
    /\ Len(record[p]) =< MaxRecord
    /\ \A m \in Module : modules[p][m] \in 0 .. Len(record[p])

(* Ids are given once: disable() cancels no other record's job.             *)
IdsGrow ==
  \A p \in Process :
    /\ \A j \in jobs[p] : j[2] \in FirstJob .. nextJob[p] - 1
    /\ \A j, k \in jobs[p] : j[2] = k[2] => j = k

ServiceInv == TypeOK /\ Entries /\ IdsGrow /\ OneJobPerRecord

-----------------------------------------------------------------------------
(* Sequences of records *)

(* A record that is replaced leaves a sequence of records. *)
LEMMA Rewritten ==
  ASSUME NEW s \in Seq(Record), NEW t, t = [e \in DOMAIN s |-> t[e]],
         \A e \in DOMAIN s : t[e] \in Record
  PROVE  t \in Seq(Record) /\ DOMAIN t = DOMAIN s /\ Len(t) = Len(s)
<1>1. Len(s) \in Nat /\ DOMAIN s = 1 .. Len(s)
  BY LenProperties
<1>2. t \in [1 .. Len(s) -> Record]
  BY <1>1
<1>3. t \in Seq(Record)
  BY <1>1, <1>2, SeqDef
<1> QED BY <1>1, <1>2, <1>3, LenProperties

(* The entries that enable() and disable() read are records. *)
LEMMA CurrentEntries ==
  ASSUME ServiceInv, NEW p \in Process, NEW S \in SUBSET Module
  PROVE  /\ Current(p, S) \subseteq DOMAIN record[p]
         /\ record[p] \in Seq(Record)
         /\ DOMAIN record[p] \subseteq Entry
         /\ \A e \in DOMAIN record[p] : record[p][e] \in Record
<1>1. /\ record[p] \in Seq(Record) /\ Len(record[p]) \in Nat
      /\ DOMAIN record[p] = 1 .. Len(record[p])
      /\ \A e \in DOMAIN record[p] : record[p][e] \in Record
  BY LenProperties, ElementOfSeq DEF ServiceInv, TypeOK
<1>2. /\ Len(record[p]) =< MaxRecord
      /\ \A m \in S : modules[p][m] \in 0 .. Len(record[p])
  BY DEF ServiceInv, Entries
<1> QED BY <1>1, <1>2, BoundAssumption DEF Current, Entry

-----------------------------------------------------------------------------
(* enable() and disable() *)

(* What one process's records s, jobs j and next id n have to satisfy. *)
Matched(s, j, n) ==
  /\ n \in FirstJob .. FirstJob + MaxJob
  /\ j \subseteq Entry \X JobId
  /\ \A k \in j : k[2] \in FirstJob .. n - 1
  /\ \A k, l \in j : k[2] = l[2] => k = l
  /\ JobsOf(s) \subseteq j
  /\ \A k \in j \ JobsOf(s) : k[2] = 0

(* The invariant says so of every process. *)
LEMMA MatchedNow ==
  ASSUME ServiceInv, NEW p \in Process PROVE Matched(record[p], jobs[p], nextJob[p])
BY DEF ServiceInv, TypeOK, IdsGrow, OneJobPerRecord, Matched

(* What a change of one process's records and jobs has to show. *)
LEMMA ProcessKeeps ==
  ASSUME ServiceInv, NEW p \in Process, NEW s, NEW j, NEW n,
         s \in Seq(Record), Len(s) = Len(record[p]), Matched(s, j, n),
         record' = [record EXCEPT ![p] = s], jobs' = [jobs EXCEPT ![p] = j],
         nextJob' = [nextJob EXCEPT ![p] = n],
         UNCHANGED <<modules, level>>,
         astate' \in [Process -> {"inited", "started", "closed", "aborted"}],
         inbox' \in [Process -> Seq({"enable", "disable"} \X Module)],
         issued' \in 0 .. MaxCommand
  PROVE  ServiceInv'
<1>1. record' \in [Process -> Seq(Record)] /\ \A q \in Process : Len(record'[q]) = Len(record[q])
  BY DEF ServiceInv, TypeOK
<1>2. /\ jobs' \in [Process -> SUBSET (Entry \X JobId)]
      /\ nextJob' \in [Process -> FirstJob .. FirstJob + MaxJob]
  BY DEF ServiceInv, TypeOK, Matched
<1>3. TypeOK'
  BY <1>1, <1>2 DEF ServiceInv, TypeOK
<1>4. Entries'
  BY <1>1 DEF ServiceInv, Entries
<1>5. \A q \in Process : Matched(record'[q], jobs'[q], nextJob'[q])
  <2>1. ASSUME NEW q \in Process PROVE Matched(record'[q], jobs'[q], nextJob'[q])
    <3>1. CASE q = p
      BY <3>1 DEF ServiceInv, TypeOK
    <3>2. CASE q # p
      <4>1. record'[q] = record[q] /\ jobs'[q] = jobs[q] /\ nextJob'[q] = nextJob[q]
        BY <3>2 DEF ServiceInv, TypeOK
      <4> QED BY <4>1, MatchedNow
    <3> QED BY <3>1, <3>2
  <2> QED BY <2>1
<1> QED BY <1>3, <1>4, <1>5 DEF ServiceInv, OneJobPerRecord, IdsGrow, Matched

(* The same for what leaves records and jobs alone. *)
LEMMA RecordsKept ==
  ASSUME ServiceInv, UNCHANGED <<modules, level, record, jobs, nextJob>>,
         astate' \in [Process -> {"inited", "started", "closed", "aborted"}],
         inbox' \in [Process -> Seq({"enable", "disable"} \X Module)],
         issued' \in 0 .. MaxCommand
  PROVE  ServiceInv'
BY DEF ServiceInv, TypeOK, Entries, IdsGrow, OneJobPerRecord

(* enable(): an entry that is not enabled gets a job, with an id that no    *)
(* job has.                                                                 *)
LEMMA TurnOnKeeps ==
  ASSUME ServiceInv, NEW p \in Process, NEW S \in SUBSET Module, TurnOn(p, S),
         UNCHANGED <<modules, level>>,
         astate' \in [Process -> {"inited", "started", "closed", "aborted"}],
         inbox' \in [Process -> Seq({"enable", "disable"} \X Module)],
         issued' \in 0 .. MaxCommand
  PROVE  ServiceInv'
<1> DEFINE s == record[p]
           on == {e \in Current(p, S) : ~s[e].enable}
           timed == {e \in on : s[e].schedule}
<1>1. PICK n \in nextJob[p] .. FirstJob + MaxJob :
        \E id \in Numbered(p, timed, n) : Scheduling(p, on, id, n)
  BY DEF TurnOn
<1>2. PICK id \in Numbered(p, timed, n) : Scheduling(p, on, id, n)
  BY <1>1
<1> DEFINE t == [e \in DOMAIN s |->
                   [s[e] EXCEPT !.enable = s[e].enable \/ e \in on,
                                !.jobId  = IF e \in timed THEN id[e] ELSE s[e].jobId]]
           j == jobs[p] \cup {<<e, id[e]>> : e \in timed}
<1>3. /\ s \in Seq(Record) /\ on \subseteq DOMAIN s /\ DOMAIN s \subseteq Entry
      /\ \A e \in DOMAIN s : s[e] \in Record
  BY CurrentEntries
<1>4. Matched(s, jobs[p], nextJob[p])
  BY MatchedNow
<1>5. /\ id \in [timed -> nextJob[p] .. n - 1]
      /\ \A e, f \in timed : id[e] = id[f] => e = f
  BY <1>2 DEF Numbered, Bijection, Injection, IsInjective
<1>6. /\ record' = [record EXCEPT ![p] = t] /\ jobs' = [jobs EXCEPT ![p] = j]
      /\ nextJob' = [nextJob EXCEPT ![p] = n]
  <2>1. DOMAIN id = timed
    BY <1>5
  <2> HIDE DEF timed, on
  <2> QED BY <1>2, <2>1 DEF Scheduling
<1>7. /\ \A e \in on : s[e].enable = FALSE
      /\ \A e \in DOMAIN s : e \in timed <=> e \in on /\ s[e].schedule
      /\ timed \subseteq on
  BY <1>3 DEF Record
<1>8. t = [e \in DOMAIN s |-> t[e]]
  OBVIOUS
<1>9. \A e \in DOMAIN s :
        t[e] = [s[e] EXCEPT !.enable = s[e].enable \/ e \in on,
                            !.jobId  = IF e \in timed THEN id[e] ELSE s[e].jobId]
  OBVIOUS
<1> HIDE DEF t, on, timed, s
<1>10. \A e \in timed : id[e] \in JobId
  BY <1>1, <1>4, <1>5, BoundAssumption, JobAssumption DEF Matched, JobId
<1>11. ASSUME NEW e \in DOMAIN s
       PROVE  /\ t[e] \in Record /\ t[e].schedule = s[e].schedule
              /\ t[e].enable = (s[e].enable \/ e \in on)
              /\ t[e].jobId = IF e \in timed THEN id[e] ELSE s[e].jobId
  <2> DEFINE b == s[e].enable \/ e \in on
             i == IF e \in timed THEN id[e] ELSE s[e].jobId
  <2>1. s[e] \in Record /\ b \in BOOLEAN /\ i \in JobId
    BY <1>3, <1>10 DEF Record
  <2>2. t[e] = [module |-> s[e].module, schedule |-> s[e].schedule, enable |-> b, jobId |-> i]
    BY <1>9, <2>1 DEF Record
  <2>3. s[e].module \in Module /\ s[e].schedule \in BOOLEAN
    BY <2>1 DEF Record
  <2> HIDE DEF b, i
  <2>4. t[e].schedule = s[e].schedule /\ t[e].enable = b /\ t[e].jobId = i
    BY <2>2
  <2>5. t[e] \in Record
    BY <2>1, <2>2, <2>3 DEF Record
  <2> QED BY <2>4, <2>5 DEF b, i
<1>12. t \in Seq(Record) /\ DOMAIN t = DOMAIN s /\ Len(t) = Len(s)
  BY <1>3, <1>8, <1>11, Rewritten
<1>13. JobsOf(s) \subseteq JobsOf(t)
  <2>1. ASSUME NEW e \in DOMAIN s, s[e].enable, s[e].schedule
        PROVE  <<e, s[e].jobId>> \in JobsOf(t)
    <3>1. e \notin on /\ e \notin timed
      BY <1>7, <2>1
    <3>2. t[e].enable /\ t[e].schedule /\ t[e].jobId = s[e].jobId
      BY <1>11, <2>1, <3>1
    <3> QED BY <1>12, <3>2 DEF JobsOf
  <2> QED BY <2>1 DEF JobsOf
<1>14. \A e \in timed : <<e, id[e]>> \in JobsOf(t)
  <2>1. ASSUME NEW e \in timed PROVE <<e, id[e]>> \in JobsOf(t)
    <3>1. e \in DOMAIN s /\ e \in on /\ s[e].schedule
      BY <1>3, <1>7
    <3>2. t[e].enable /\ t[e].schedule /\ t[e].jobId = id[e]
      BY <1>11, <3>1
    <3> QED BY <1>12, <3>1, <3>2 DEF JobsOf
  <2> QED BY <2>1
<1>15. JobsOf(t) \subseteq j
  <2>1. ASSUME NEW e \in DOMAIN t, t[e].enable, t[e].schedule
        PROVE  <<e, t[e].jobId>> \in j
    <3>1. CASE e \in timed
      BY <1>11, <1>12, <2>1, <3>1
    <3>2. CASE e \notin timed
      <4>1. e \in DOMAIN s /\ s[e].schedule /\ e \notin on /\ s[e].enable /\ t[e].jobId = s[e].jobId
        BY <1>7, <1>11, <1>12, <2>1, <3>2
      <4>2. <<e, s[e].jobId>> \in JobsOf(s)
        BY <4>1 DEF JobsOf
      <4> QED BY <1>4, <4>1, <4>2 DEF Matched
    <3> QED BY <3>1, <3>2
  <2> HIDE DEF j
  <2> QED BY <2>1 DEF JobsOf
<1>16. j \subseteq Entry \X JobId
  BY <1>3, <1>4, <1>7, <1>10 DEF Matched
<1>17. \A k \in j : k \in jobs[p] \/ \E e \in timed : k = <<e, id[e]>>
  OBVIOUS
<1> HIDE DEF j
<1>18. \A k \in j : k[2] \in FirstJob .. n - 1
  <2>1. ASSUME NEW k \in j PROVE k[2] \in FirstJob .. n - 1
    <3>1. nextJob[p] \in Int /\ n \in Int /\ nextJob[p] =< n /\ FirstJob =< nextJob[p]
      BY <1>4, JobAssumption, BoundAssumption DEF Matched
    <3>2. k \in jobs[p] => k[2] \in FirstJob .. nextJob[p] - 1
      BY <1>4 DEF Matched
    <3>3. \A e \in timed : id[e] \in FirstJob .. n - 1
      BY <1>5, <3>1, JobAssumption
    <3> QED BY <1>17, <3>1, <3>2, <3>3, JobAssumption
  <2> QED BY <2>1
<1>19. \A k, l \in j : k[2] = l[2] => k = l
  <2>1. ASSUME NEW k \in j, NEW l \in j, k[2] = l[2] PROVE k = l
    <3>1. nextJob[p] \in Int /\ n \in Int
          /\ \A m \in jobs[p] : m[2] \in FirstJob .. nextJob[p] - 1
      BY <1>4, JobAssumption, BoundAssumption DEF Matched
    <3>2. \A m \in jobs[p], e \in timed : m[2] # id[e]
      BY <1>5, <3>1, JobAssumption
    <3>3. CASE k \in jobs[p] /\ l \in jobs[p]
      BY <1>4, <2>1, <3>3 DEF Matched
    <3>4. CASE k \notin jobs[p]
      <4>1. PICK e \in timed : k = <<e, id[e]>>
        BY <1>17, <3>4
      <4>2. PICK f \in timed : l = <<f, id[f]>>
        BY <1>17, <2>1, <3>2, <4>1
      <4> QED BY <1>5, <2>1, <4>1, <4>2
    <3>5. CASE l \notin jobs[p]
      <4>1. PICK e \in timed : l = <<e, id[e]>>
        BY <1>17, <3>5
      <4>2. PICK f \in timed : k = <<f, id[f]>>
        BY <1>17, <2>1, <3>2, <4>1
      <4> QED BY <1>5, <2>1, <4>1, <4>2
    <3> QED BY <3>3, <3>4, <3>5
  <2> QED BY <2>1
<1>20. \A k \in j \ JobsOf(t) : k[2] = 0
  BY <1>4, <1>13, <1>14, <1>17 DEF Matched
<1>21. n \in FirstJob .. FirstJob + MaxJob
  BY <1>1, <1>4, JobAssumption, BoundAssumption DEF Matched
<1>22. Matched(t, j, n)
  BY <1>15, <1>16, <1>18, <1>19, <1>20, <1>21 DEF Matched
<1> QED BY <1>6, <1>12, <1>22, ProcessKeeps DEF s

(* disable(): the job that is cancelled is the record's; the one that is    *)
(* not has the id 0.                                                        *)
LEMMA TurnOffKeeps ==
  ASSUME ServiceInv, NEW p \in Process, NEW S \in SUBSET Module, TurnOff(p, S),
         UNCHANGED <<modules, level>>,
         astate' \in [Process -> {"inited", "started", "closed", "aborted"}],
         inbox' \in [Process -> Seq({"enable", "disable"} \X Module)],
         issued' \in 0 .. MaxCommand
  PROVE  ServiceInv'
<1> DEFINE s == record[p]
           off == {e \in Current(p, S) : s[e].enable}
           cancelled == {s[e].jobId : e \in {e \in off : s[e].schedule}} \ {0}
           t == [e \in DOMAIN s |-> [s[e] EXCEPT !.enable = s[e].enable /\ e \notin off]]
           j == {k \in jobs[p] : k[2] \notin cancelled}
<1>1. /\ record' = [record EXCEPT ![p] = t] /\ jobs' = [jobs EXCEPT ![p] = j]
      /\ nextJob' = [nextJob EXCEPT ![p] = nextJob[p]]
  BY DEF TurnOff, ServiceInv, TypeOK
<1>2. /\ s \in Seq(Record) /\ off \subseteq DOMAIN s
      /\ \A e \in DOMAIN s : s[e] \in Record
  BY CurrentEntries
<1>3. t = [e \in DOMAIN s |-> t[e]]
  OBVIOUS
<1>4. \A e \in DOMAIN s : t[e] = [s[e] EXCEPT !.enable = s[e].enable /\ e \notin off]
  OBVIOUS
<1>5. Matched(s, jobs[p], nextJob[p])
  BY MatchedNow
<1>6. /\ \A e \in off : s[e].enable
      /\ \A i \in cancelled : \E e \in off : s[e].schedule /\ i = s[e].jobId
      /\ \A e \in off : s[e].schedule => s[e].jobId \in cancelled \/ s[e].jobId = 0
  OBVIOUS
<1>7. j \subseteq jobs[p] /\ \A k \in jobs[p] : k \in j <=> k[2] \notin cancelled
  OBVIOUS
<1> HIDE DEF t, off, s, cancelled, j
<1>8. ASSUME NEW e \in DOMAIN s
      PROVE  /\ t[e] \in Record /\ t[e].schedule = s[e].schedule /\ t[e].jobId = s[e].jobId
             /\ t[e].enable = (s[e].enable /\ e \notin off)
  <2> DEFINE b == s[e].enable /\ e \notin off
  <2>1. s[e] \in Record /\ b \in BOOLEAN
    BY <1>2 DEF Record
  <2>2. t[e] = [s[e] EXCEPT !.enable = b]
    BY <1>4
  <2> HIDE DEF b
  <2>3. \A d \in Record, x \in BOOLEAN :
          LET c == [d EXCEPT !.enable = x]
          IN c \in Record /\ c.schedule = d.schedule /\ c.enable = x /\ c.jobId = d.jobId
    BY DEF Record
  <2>4. t[e] \in Record /\ t[e].schedule = s[e].schedule /\ t[e].enable = b /\ t[e].jobId = s[e].jobId
    BY <2>1, <2>2, <2>3
  <2> QED BY <2>4 DEF b
<1>9. t \in Seq(Record) /\ DOMAIN t = DOMAIN s /\ Len(t) = Len(s)
  BY <1>2, <1>3, <1>8, Rewritten
<1>10. JobsOf(t) \subseteq j
  <2>1. ASSUME NEW e \in DOMAIN t, t[e].enable, t[e].schedule
        PROVE  <<e, t[e].jobId>> \in j
    <3>1. e \in DOMAIN s /\ s[e].enable /\ s[e].schedule /\ e \notin off /\ t[e].jobId = s[e].jobId
      BY <1>8, <1>9, <2>1
    <3>2. <<e, s[e].jobId>> \in jobs[p]
      BY <1>5, <3>1 DEF JobsOf, Matched
    <3>3. s[e].jobId \notin cancelled
      <4>1. SUFFICES ASSUME s[e].jobId \in cancelled PROVE FALSE
        OBVIOUS
      <4>2. PICK f \in off : s[f].schedule /\ s[e].jobId = s[f].jobId
        BY <1>6, <4>1
      <4>3. <<f, s[f].jobId>> \in jobs[p]
        BY <1>2, <1>5, <1>6, <4>2 DEF JobsOf, Matched
      <4>4. <<e, s[e].jobId>> = <<f, s[f].jobId>>
        BY <1>5, <3>2, <4>2, <4>3 DEF Matched
      <4> QED BY <3>1, <4>4
    <3> QED BY <1>7, <3>1, <3>2, <3>3
  <2> QED BY <2>1 DEF JobsOf
<1>11. \A k \in j \ JobsOf(t) : k[2] = 0
  <2>1. ASSUME NEW k \in j, k \notin JobsOf(t), k \in JobsOf(s) PROVE k[2] = 0
    <3>1. PICK e \in DOMAIN s : s[e].enable /\ s[e].schedule /\ k = <<e, s[e].jobId>>
      BY <2>1 DEF JobsOf
    <3>2. e \in off
      <4>1. CASE e \notin off
        BY <1>8, <1>9, <2>1, <3>1, <4>1 DEF JobsOf
      <4> QED BY <4>1
    <3> QED BY <1>6, <1>7, <3>1, <3>2
  <2> QED BY <1>5, <1>7, <2>1 DEF Matched
<1>12. Matched(t, j, nextJob[p])
  BY <1>5, <1>7, <1>10, <1>11 DEF Matched
<1> QED BY <1>1, <1>9, <1>12, ProcessKeeps DEF s

-----------------------------------------------------------------------------
(* Registration *)

(* register() adds a record that is not enabled: no job belongs to it, and  *)
(* none changes hands.                                                      *)
LEMMA RegisterKeeps ==
  ASSUME ServiceInv, NEW p \in Process, NEW m \in Module, NEW kind \in Kind, Register(p, m, kind)
  PROVE  ServiceInv'
<1> DEFINE s == record[p]
           r == [module |-> m, schedule |-> Scheduled(p, kind), enable |-> FALSE, jobId |-> 0]
           t == Append(s, r)
<1>1. s \in Seq(Record) /\ Len(s) \in Nat /\ Len(s) < MaxRecord /\ DOMAIN s = 1 .. Len(s)
  BY LenProperties DEF ServiceInv, TypeOK, Register
<1>2. r \in Record
  <2>1. Scheduled(p, kind) \in BOOLEAN
    BY DEF Scheduled
  <2>2. 0 \in JobId
    BY DEF JobId
  <2> QED BY <2>1, <2>2 DEF Record
<1>3. /\ record' = [record EXCEPT ![p] = t]
      /\ modules' = [modules EXCEPT ![p][m] = Len(record'[p])]
      /\ UNCHANGED <<astate, jobs, nextJob, level, inbox, issued>>
  BY DEF Register
<1>4. /\ t \in Seq(Record) /\ Len(t) = Len(s) + 1 /\ DOMAIN t = 1 .. Len(s) + 1
      /\ \A e \in 1 .. Len(s) : t[e] = s[e]
      /\ t[Len(s) + 1] = r
  <2> HIDE DEF r, s
  <2>1. Append(s, r) \in Seq(Record) /\ Len(Append(s, r)) = Len(s) + 1
    BY <1>1, <1>2, AppendProperties
  <2>2. DOMAIN Append(s, r) = 1 .. Len(s) + 1
    BY <1>1, <2>1, LenProperties
  <2>3. \A e \in 1 .. Len(s) : Append(s, r)[e] = s[e]
    BY <1>1, <1>2, AppendProperties
  <2>4. Append(s, r)[Len(s) + 1] = r
    BY <1>1, <1>2, AppendProperties
  <2> QED BY <2>1, <2>2, <2>3, <2>4
<1>5. r.enable = FALSE
  OBVIOUS
<1> HIDE DEF r, t
<1>6. record'[p] = t /\ \A q \in Process \ {p} : record'[q] = record[q]
  BY <1>3 DEF ServiceInv, TypeOK
<1>7. record' \in [Process -> Seq(Record)]
  BY <1>3, <1>4 DEF ServiceInv, TypeOK
<1>8. modules' \in [Process -> [Module -> 0 .. MaxRecord]]
  <2>1. Len(t) \in 0 .. MaxRecord
    BY <1>1, <1>4, BoundAssumption
  <2> QED BY <1>3, <1>6, <2>1 DEF ServiceInv, TypeOK
<1>9. TypeOK'
  BY <1>3, <1>7, <1>8 DEF ServiceInv, TypeOK
<1>10. Entries'
  <2>1. /\ modules'[p][m] = Len(t)
        /\ \A n \in Module \ {m} : modules'[p][n] = modules[p][n]
        /\ \A q \in Process \ {p} : modules'[q] = modules[q]
    BY <1>3, <1>6 DEF ServiceInv, TypeOK
  <2>2. ASSUME NEW q \in Process
        PROVE  /\ Len(record'[q]) =< MaxRecord
               /\ \A n \in Module : modules'[q][n] \in 0 .. Len(record'[q])
    <3>1. CASE q = p
      <4>1. Len(record'[q]) = Len(s) + 1 /\ Len(s) + 1 =< MaxRecord
        BY <1>1, <1>4, <1>6, <3>1, BoundAssumption
      <4>2. \A n \in Module : modules[p][n] \in 0 .. Len(s)
        BY DEF ServiceInv, Entries
      <4> QED BY <1>1, <1>4, <2>1, <3>1, <4>1, <4>2
    <3>2. CASE q # p
      BY <1>6, <2>1, <3>2 DEF ServiceInv, Entries
    <3> QED BY <3>1, <3>2
  <2> QED BY <2>2 DEF Entries
<1>11. JobsOf(t) = JobsOf(s)
  <2>1. \A e \in DOMAIN t : t[e].enable => e \in DOMAIN s /\ t[e] = s[e]
    BY <1>1, <1>4, <1>5
  <2>2. \A e \in DOMAIN s : e \in DOMAIN t /\ t[e] = s[e]
    BY <1>1, <1>4
  <2> HIDE DEF s
  <2> QED BY <2>1, <2>2 DEF JobsOf
<1>12. \A q \in Process : JobsOf(record'[q]) = JobsOf(record[q])
  BY <1>6, <1>11
<1>13. IdsGrow' /\ OneJobPerRecord'
  BY <1>3, <1>12 DEF ServiceInv, IdsGrow, OneJobPerRecord
<1> QED BY <1>9, <1>10, <1>13 DEF ServiceInv

-----------------------------------------------------------------------------
(* Every call, command, start and stop keeps the invariant.                 *)
LEMMA NextServiceInv == ASSUME ServiceInv, Next PROVE ServiceInv'
<1> USE ProcessAssumption
<1> DEFINE Others ==
      /\ astate' \in [Process -> {"inited", "started", "closed", "aborted"}]
      /\ inbox' \in [Process -> Seq({"enable", "disable"} \X Module)]
      /\ issued' \in 0 .. MaxCommand
<1>1. ASSUME UNCHANGED <<astate, inbox, issued>> PROVE Others
  BY <1>1 DEF ServiceInv, TypeOK
<1>2. ASSUME NEW p \in Process, Start(p) PROVE ServiceInv'
  <2>1. Others /\ UNCHANGED <<modules, level>>
    BY <1>2 DEF Start, ServiceInv, TypeOK
  <2> QED BY <1>2, <2>1, TurnOnKeeps DEF Start
<1>3. ASSUME NEW p \in Process, Stop(p) PROVE ServiceInv'
  <2>1. Others /\ UNCHANGED <<modules, level>>
    BY <1>3 DEF Stop, ServiceInv, TypeOK
  <2> QED BY <1>3, <2>1, TurnOffKeeps DEF Stop
<1>4. ASSUME NEW p \in Process, CommandArrives(p) PROVE ServiceInv'
  <2>1. inbox[p] \in Seq({"enable", "disable"} \X Module) /\ inbox[p] # <<>>
    BY <1>4 DEF CommandArrives, ServiceInv, TypeOK
  <2>2. Tail(inbox[p]) \in Seq({"enable", "disable"} \X Module)
    BY <2>1, HeadTailProperties
  <2>3. Others /\ UNCHANGED <<modules, level, record, jobs, nextJob>>
    BY <1>4, <2>2 DEF CommandArrives, ServiceInv, TypeOK
  <2> QED BY <2>3, RecordsKept
<1>5. ASSUME NEW p \in Process, NEW m \in Module, Enable(p, m) \/ Disable(p, m)
      PROVE  ServiceInv'
  <2>1. Others /\ UNCHANGED <<modules, level>>
    BY <1>1, <1>5 DEF Enable, Disable
  <2>2. {m} \in SUBSET Module
    OBVIOUS
  <2> QED BY <1>5, <2>1, <2>2, TurnOnKeeps, TurnOffKeeps DEF Enable, Disable
<1>6. ASSUME NEW c \in Client, NEW command \in {"enable", "disable"}, NEW m \in Module,
             Command(c, command, m)
      PROVE  ServiceInv'
  <2>1. issued' \in 0 .. MaxCommand /\ UNCHANGED <<astate, modules, level>>
    BY <1>6, BoundAssumption DEF Command, ServiceInv, TypeOK
  <2>2. CASE MayCommand(c) /\ modules[Master][m] # 0
    <3>1. Broadcast(command, m) /\ (TurnOn(Master, {m}) \/ TurnOff(Master, {m}))
      BY <1>6, <2>2 DEF Command, Turn
    <3>2. \A p \in Process : Append(inbox[p], <<command, m>>) \in Seq({"enable", "disable"} \X Module)
      BY AppendProperties DEF ServiceInv, TypeOK
    <3>3. inbox' \in [Process -> Seq({"enable", "disable"} \X Module)]
      BY <3>1, <3>2 DEF Broadcast, ServiceInv, TypeOK
    <3>4. Others
      BY <2>1, <3>3 DEF ServiceInv, TypeOK
    <3>5. {m} \in SUBSET Module
      OBVIOUS
    <3> QED BY <2>1, <3>1, <3>4, <3>5, TurnOnKeeps, TurnOffKeeps
  <2>3. CASE ~(MayCommand(c) /\ modules[Master][m] # 0)
    <3>1. UNCHANGED <<record, jobs, nextJob, inbox>>
      BY <1>6, <2>3 DEF Command
    <3>2. Others
      BY <2>1, <3>1 DEF ServiceInv, TypeOK
    <3> QED BY <2>1, <3>1, <3>2, RecordsKept
  <2> QED BY <2>2, <2>3
<1> QED BY <1>2, <1>3, <1>4, <1>5, <1>6, RegisterKeeps DEF Next

(* The invariant holds initially.                                           *)
LEMMA InitServiceInv == ASSUME Init PROVE ServiceInv
<1>1. TypeOK
  <2>1. record \in [Process -> Seq(Record)] /\ inbox \in [Process -> Seq({"enable", "disable"} \X Module)]
    BY EmptySeq DEF Init
  <2>2. /\ jobs \in [Process -> SUBSET (Entry \X JobId)]
        /\ nextJob \in [Process -> FirstJob .. FirstJob + MaxJob]
        /\ level \in [Client -> Level] /\ astate \in [Process -> {"inited", "started", "closed", "aborted"}]
    BY JobAssumption, BoundAssumption DEF Init
  <2>3. modules \in [Process -> [Module -> 0 .. MaxRecord]] /\ issued \in 0 .. MaxCommand
    BY BoundAssumption DEF Init
  <2> QED BY <2>1, <2>2, <2>3 DEF TypeOK
<1>2. \A p \in Process : Len(record[p]) = 0 /\ DOMAIN record[p] = {}
  <2>1. \A p \in Process : record[p] = <<>>
    BY DEF Init
  <2>2. Len(<<>>) = 0 /\ DOMAIN <<>> = {}
    OBVIOUS
  <2> QED BY <2>1, <2>2
<1>3. Entries
  <2>1. \A p \in Process, m \in Module : modules[p][m] = 0
    BY DEF Init
  <2>2. 0 =< MaxRecord /\ 0 \in 0 .. 0
    BY BoundAssumption
  <2> QED BY <1>2, <2>1, <2>2 DEF Entries
<1>4. IdsGrow /\ OneJobPerRecord
  BY <1>2 DEF Init, IdsGrow, OneJobPerRecord, JobsOf
<1> QED BY <1>1, <1>3, <1>4 DEF ServiceInv

(* The invariant holds in every reachable state.                            *)
LEMMA ServiceInvariant == Spec => []ServiceInv
<1>1. ServiceInv /\ UNCHANGED vars => ServiceInv'
  BY DEF vars, ServiceInv, TypeOK, Entries, IdsGrow, OneJobPerRecord
<1> QED BY <1>1, InitServiceInv, NextServiceInv, PTL DEF Spec

(* Every reachable state of the console services is well typed.             *)
THEOREM ServiceTypeCorrect == Spec => []TypeOK
BY ServiceInvariant, PTL DEF ServiceInv

(* Each enabled record that is scheduled has its job, and no other job is   *)
(* running than perhaps the one with the id 0, for any processes, modules,  *)
(* clients, ids of the scheduler and order of the calls.                    *)
THEOREM JobsMatchRecords == Spec => []OneJobPerRecord
BY ServiceInvariant, PTL DEF ServiceInv

(* With a scheduler that does not begin with 0, disable() leaves no job     *)
(* behind: the jobs are those of the enabled, scheduled records.            *)
THEOREM NoJobIsLeftBehind ==
  ASSUME FirstJob # 0
  PROVE  Spec => [](\A p \in Process : jobs[p] = JobsOf(record[p]))
<1>1. ServiceInv => \A p \in Process : jobs[p] = JobsOf(record[p])
  <2>1. ASSUME ServiceInv, NEW p \in Process PROVE jobs[p] = JobsOf(record[p])
    <3>1. \A j \in jobs[p] : j[2] # 0
      BY <2>1, MatchedNow, JobAssumption DEF Matched
    <3>2. /\ JobsOf(record[p]) \subseteq jobs[p]
          /\ \A j \in jobs[p] : j \in JobsOf(record[p])
      BY <2>1, <3>1, MatchedNow DEF Matched
    <3> QED BY <3>2
  <2> QED BY <2>1
<1> QED BY <1>1, ServiceInvariant, PTL
=============================================================================
