---------------------------- MODULE NotifyProofs ----------------------------
(***************************************************************************)
(* The safety properties of Notify, for any requests, services and limits. *)
(***************************************************************************)
EXTENDS Notify, TLAPS

\* The parts of a handler's name.
LEMMA HandlerParts ==
  ASSUME NEW h \in Handlers
  PROVE  /\ h[1] \in Requests /\ h[2] \in Paths /\ h[3] \in 1..MaxSends[h[1]]
         /\ h = <<h[1], h[2], h[3]>>
BY DEF Handlers

\* Every request has a handler for each of its rsync runs.
LEMMA HandlerOf ==
  ASSUME NEW r \in Requests, NEW p \in Paths, NEW n \in 1..MaxSends[r]
  PROVE  <<r, p, n>> \in Handlers
BY DEF Handlers

\* The states a handler is put into.
LEMMA StatesOK ==
  /\ None \in States /\ Queued \in States
  /\ \A n \in Nat : Ask(n, 1) \in States
  /\ None.at = "none" /\ Queued.at = "queued"
  /\ \A n, a \in Nat : Ask(n, a).at = "asking"
BY NotifyAssumption DEF None, Queued, Ask, States

-----------------------------------------------------------------------------
(* Types.                                                                   *)

\* What Proceed does: the handler goes on, or it ends and its file is gone.
LEMMA ProceedStep ==
  ASSUME NotifyTypeOK, NEW h \in Handlers, NEW n \in Nat, Proceed(h, n)
  PROVE  /\ work' \in [Handlers -> States]
         /\ \A g \in Handlers : g # h => work'[g] = work[g]
         /\ work'[h].at = "none"
              => /\ h[1] \in served'
                 /\ h[2] \in {"found", "moved"} => entry'[h[1]] # "file"
         /\ entry' \in [Requests -> {"none", "partial", "temp", "file"}]
         /\ litter' \in [Requests -> {"none", "partial", "temp"}]
         /\ \A r \in Requests :
              \/ entry'[r] = entry[r]
              \/ entry'[r] = "none" /\ r \in served'
         /\ served \subseteq served' /\ served' \subseteq Requests
<1>1. work \in [Handlers -> States]
  BY DEF NotifyTypeOK
<1>2. h[1] \in Requests
  BY HandlerParts
<1>3. CASE /\ work' = [work EXCEPT ![h] = Ask(n, 1)]
           /\ UNCHANGED <<directory, served>>
  <2>1. work'[h].at = "asking" /\ work' \in [Handlers -> States]
    BY <1>1, <1>3, StatesOK
  <2>2. QED
    BY <1>1, <1>3, <2>1 DEF directory, NotifyTypeOK
<1>4. CASE /\ work' = [work EXCEPT ![h] = None]
           /\ served' = served \cup {h[1]}
           /\ Remove(h)
  <2>1. work' \in [Handlers -> States]
    BY <1>1, <1>4, StatesOK
  <2>2. QED
    BY <1>1, <1>2, <1>4, <2>1 DEF Remove, NotifyTypeOK
<1>5. QED
  BY <1>3, <1>4 DEF Proceed

\* What a step of a handler does: the process is restarted, or this one handler
\* goes on.
LEMMA HandleStep ==
  ASSUME NotifyTypeOK, NEW h \in Handlers, Handle(h)
  PROVE  /\ UNCHANGED <<sibling, kills>>
         /\ \/ Restarted /\ UNCHANGED directory
            \/ /\ UNCHANGED <<monitor, scan, events, slipped>>
               /\ work' \in [Handlers -> States]
               /\ \A g \in Handlers : g # h => work'[g] = work[g]
               /\ work'[h].at = "none"
                    => /\ h[1] \in served'
                       /\ h[2] \in {"found", "moved"} => entry'[h[1]] # "file"
               /\ entry' \in [Requests -> {"none", "partial", "temp", "file"}]
               /\ litter' \in [Requests -> {"none", "partial", "temp"}]
               /\ \A r \in Requests :
                    \/ entry'[r] = entry[r]
                    \/ entry'[r] = "none" /\ r \in served'
               /\ served \subseteq served' /\ served' \subseteq Requests
<1>1. work \in [Handlers -> States] /\ work[h] \in States
  BY DEF NotifyTypeOK
<1>2. CASE Start(h)
  BY <1>2, ProceedStep DEF Start
<1>3. CASE Accepted(h)
  BY <1>1, <1>3, ProceedStep DEF Accepted, States
<1>4. CASE Refused(h)
  <2>1. RetryAttempts \in Nat /\ work[h].attempt \in Nat
    BY <1>1, NotifyAssumption DEF States
  <2>2. \A s \in {"reporting", "sleeping"} :
          (s = "sleeping" => work[h].attempt <= RetryAttempts)
            => [work[h] EXCEPT !.at = s] \in States
    BY <1>1 DEF States
  <2>3. \E s \in {"reporting", "sleeping"} :
          /\ s = "sleeping" => work[h].attempt <= RetryAttempts
          /\ work' = [work EXCEPT ![h].at = s]
    <3>1. CASE work[h].attempt > RetryAttempts
      BY <1>4, <3>1 DEF Refused
    <3>2. CASE ~(work[h].attempt > RetryAttempts)
      <4>1. work[h].attempt <= RetryAttempts
        BY <2>1, <3>2
      <4>2. work' = [work EXCEPT ![h].at = "sleeping"]
        BY <1>4, <3>2 DEF Refused
      <4>3. QED
        BY <4>1, <4>2
    <3>3. QED
      BY <3>1, <3>2
  <2>4. PICK s \in {"reporting", "sleeping"} :
          /\ [work[h] EXCEPT !.at = s] \in States
          /\ work' = [work EXCEPT ![h] = [work[h] EXCEPT !.at = s]]
    BY <2>2, <2>3
  <2>5. /\ work'[h].at # "none" /\ work' \in [Handlers -> States]
        /\ \A g \in Handlers : g # h => work'[g] = work[g]
    <3>1. [work[h] EXCEPT !.at = s].at = s
      BY <1>1 DEF States
    <3>2. QED
      BY <1>1, <2>4, <3>1
  <2>6. QED
    BY <1>4, <2>5 DEF Refused, directory, NotifyTypeOK
<1>5. CASE Retry(h)
  <2>1. /\ RetryAttempts \in Nat /\ work[h].attempt \in Nat
        /\ work[h].service \in Nat /\ work[h].attempt <= RetryAttempts
    BY <1>1, <1>5, NotifyAssumption DEF Retry, States
  <2>2. Ask(work[h].service, work[h].attempt + 1) \in States
    BY <2>1 DEF Ask, States
  <2>3. work'[h].at = "asking" /\ work' \in [Handlers -> States]
    BY <1>1, <1>5, <2>1, <2>2, StatesOK DEF Retry
  <2>4. QED
    BY <1>5, <2>3 DEF Retry, directory, NotifyTypeOK
<1>6. CASE Reported(h)
  BY <1>1, <1>6, ProceedStep DEF Reported, States
<1>7. QED
  BY <1>2, <1>3, <1>4, <1>5, <1>6 DEF Handle

LEMMA RestartedType ==
  ASSUME NotifyTypeOK, Restarted, UNCHANGED <<directory, sibling>>,
         kills' \in 0..MaxKills
  PROVE  NotifyTypeOK'
<1>1. work' \in [Handlers -> States]
  BY StatesOK DEF Restarted
<1>2. QED
  BY <1>1 DEF Restarted, directory, sibling, NotifyTypeOK

LEMMA InitNotifyType == NotifyInit => NotifyTypeOK
<1> SUFFICES ASSUME NotifyInit PROVE NotifyTypeOK
  OBVIOUS
<1>1. work \in [Handlers -> States]
  BY StatesOK DEF NotifyInit
<1>2. kills \in 0..MaxKills
  BY NotifyAssumption DEF NotifyInit
<1>3. ASSUME NEW r \in Requests PROVE sends[r] <= MaxSends[r]
  <2>1. MaxSends[r] \in Nat
    BY NotifyAssumption
  <2>2. sends[r] = 0
    BY DEF NotifyInit
  <2>3. QED
    BY <2>1, <2>2
<1>4. /\ entry \in [Requests -> {"none", "partial", "temp", "file"}]
      /\ litter \in [Requests -> {"none", "partial", "temp"}]
      /\ sender \in [Requests -> {"waiting", "sending", "moved", "accepted",
                                  "dropped"}]
      /\ sends \in [Requests -> Nat]
      /\ \A r \in Requests : entry[r] = "none" /\ sender[r] = "waiting"
  BY DEF NotifyInit
<1>5. QED
  BY <1>1, <1>2, <1>3, <1>4 DEF NotifyInit, NotifyTypeOK

LEMMA NextNotifyType == NotifyTypeOK /\ [NotifyNext]_notifyVars => NotifyTypeOK'
<1> SUFFICES ASSUME NotifyTypeOK, [NotifyNext]_notifyVars PROVE NotifyTypeOK'
  OBVIOUS
<1>1. ASSUME NEW r \in Requests, BeginSend(r) PROVE NotifyTypeOK'
  <2>1. /\ sends' = [sends EXCEPT ![r] = sends[r] + 1]
        /\ sends[r] < MaxSends[r]
        /\ sends[r] \in Nat /\ MaxSends[r] \in Nat
    BY <1>1, NotifyAssumption DEF BeginSend, NotifyTypeOK
  <2>2. /\ sends' \in [Requests -> Nat]
        /\ \A q \in Requests : sends'[q] <= MaxSends[q]
        /\ sends'[r] > 0
        /\ \A q \in Requests : q # r => sends'[q] = sends[q]
    BY <2>1 DEF NotifyTypeOK
  <2>3. /\ entry' \in [Requests -> {"none", "partial", "temp", "file"}]
        /\ sender' \in [Requests -> {"waiting", "sending", "moved", "accepted",
                                     "dropped"}]
        /\ \A q \in Requests : q # r => entry'[q] = entry[q]
                                        /\ sender'[q] = sender[q]
    BY <1>1 DEF BeginSend, NotifyTypeOK
  <2>4. QED
    BY <1>1, <2>2, <2>3 DEF BeginSend, service, NotifyTypeOK
<1>2. ASSUME NEW r \in Requests, Transfer(r) PROVE NotifyTypeOK'
  <2>1. CASE WriteTemp(r)
    BY <2>1 DEF WriteTemp, sibling, service, NotifyTypeOK
  <2>2. CASE MoveIn(r)
    <3>1. sends[r] \in 1..MaxSends[r]
      BY <2>2, NotifyAssumption DEF MoveIn, NotifyTypeOK
    <3>2. <<r, "moved", sends[r]>> \in Handlers
      BY <3>1, HandlerOf DEF Paths
    <3>3. events' \subseteq Handlers /\ (events' # {} => monitor' = "watching")
      BY <2>2, <3>2 DEF MoveIn, NotifyTypeOK
    <3>4. QED
      BY <2>2, <3>3 DEF MoveIn, NotifyTypeOK
  <2>3. CASE SendFails(r)
    <3>1. sends[r] > 0
      BY <2>3 DEF SendFails, NotifyTypeOK
    <3>2. QED
      BY <2>3, <3>1 DEF SendFails, service, NotifyTypeOK
  <2>4. CASE SendEnds(r)
    BY <2>4 DEF SendEnds, directory, service, NotifyTypeOK
  <2>5. QED
    BY <1>2, <2>1, <2>2, <2>3, <2>4 DEF Transfer
<1>3. CASE Killed
  <2>1. kills' \in 0..MaxKills
    BY <1>3, NotifyAssumption DEF Killed, NotifyTypeOK
  <2>2. QED
    BY <1>3, <2>1, RestartedType DEF Killed
<1>4. CASE LosePower
  <2>1. kills' \in 0..MaxKills
    BY <1>4, NotifyAssumption DEF LosePower, NotifyTypeOK
  <2>2. work' \in [Handlers -> States]
    BY <1>4, StatesOK DEF LosePower, Restarted
  <2>3. /\ entry' \in [Requests -> {"none", "partial", "temp", "file"}]
        /\ litter' \in [Requests -> {"none", "partial", "temp"}]
        /\ \A r \in Requests : entry'[r] # "none" => entry[r] # "none"
    BY <1>4 DEF LosePower, NotifyTypeOK
  <2>4. QED
    BY <1>4, <2>1, <2>2, <2>3 DEF LosePower, Restarted, sibling, NotifyTypeOK
<1>5. CASE CheckDirectory
  BY <1>5 DEF CheckDirectory, directory, sibling, NotifyTypeOK
<1>6. CASE Watch
  BY <1>6 DEF Watch, directory, sibling, NotifyTypeOK
<1>7. CASE Scan
  <2>1. work' \in [Handlers -> States]
    BY <1>7, StatesOK DEF Scan, NotifyTypeOK
  <2>2. QED
    BY <1>7, <2>1 DEF Scan, directory, sibling, NotifyTypeOK
<1>8. ASSUME NEW h \in Handlers, ReadEvent(h) PROVE NotifyTypeOK'
  <2>1. work' \in [Handlers -> States]
    BY <1>8, StatesOK DEF ReadEvent, NotifyTypeOK
  <2>2. QED
    BY <1>8, <2>1 DEF ReadEvent, directory, sibling, NotifyTypeOK
<1>9. ASSUME NEW h \in Handlers, Handle(h) PROVE NotifyTypeOK'
  <2>1. CASE Restarted /\ UNCHANGED directory
    BY <1>9, <2>1, HandleStep, RestartedType DEF NotifyTypeOK
  <2>2. CASE ~(Restarted /\ UNCHANGED directory)
    <3>1. \A r \in Requests : entry'[r] # "none" => entry[r] # "none"
      BY <1>9, <2>2, HandleStep
    <3>2. QED
      BY <1>9, <2>2, <3>1, HandleStep DEF sibling, NotifyTypeOK
  <2>3. QED
    BY <2>1, <2>2
<1>10. CASE UNCHANGED notifyVars
  BY <1>10 DEF notifyVars, directory, sibling, service, NotifyTypeOK
<1>11. QED
  BY <1>1, <1>2, <1>3, <1>4, <1>5, <1>6, <1>7, <1>8, <1>9, <1>10
     DEF NotifyNext

\* The directory, the sibling and the handlers stay well typed; no handler asks
\* a service more often than the retry limit allows.
THEOREM NotifyTypeCorrect == NotifySpec => []NotifyTypeOK
BY InitNotifyType, NextNotifyType, PTL DEF NotifySpec

-----------------------------------------------------------------------------
(* No request is lost on the way through the directory.                     *)

\* A request that was moved in is there until it has been served, whether or
\* not the sibling knows already that rsync succeeded.
ArrivedOrServed ==
  \A r \in Requests :
    sender[r] \in {"moved", "accepted"} => entry[r] = "file" \/ r \in served

\* An accepted request that is gone was served.
THEOREM RequestsKept == NotifySpec => []ServedBeforeGone
<1>1. NotifyInit => ArrivedOrServed
  BY DEF NotifyInit, ArrivedOrServed
<1>2. NotifyTypeOK /\ ArrivedOrServed /\ [NotifyNext]_notifyVars
        => ArrivedOrServed'
  <2> SUFFICES ASSUME NotifyTypeOK, ArrivedOrServed, [NotifyNext]_notifyVars
               PROVE  ArrivedOrServed'
    OBVIOUS
  <2>0. ASSUME UNCHANGED <<entry, sender, served>> PROVE ArrivedOrServed'
    BY <2>0 DEF ArrivedOrServed
  <2>1. ASSUME NEW r \in Requests, BeginSend(r) PROVE ArrivedOrServed'
    BY <2>1 DEF BeginSend, ArrivedOrServed, NotifyTypeOK
  <2>2. ASSUME NEW r \in Requests, Transfer(r) PROVE ArrivedOrServed'
    <3>1. CASE WriteTemp(r)
      BY <3>1 DEF WriteTemp, sibling, ArrivedOrServed, NotifyTypeOK
    <3>2. CASE MoveIn(r)
      BY <3>2 DEF MoveIn, ArrivedOrServed, NotifyTypeOK
    <3>3. CASE SendFails(r)
      BY <3>3 DEF SendFails, ArrivedOrServed, NotifyTypeOK
    <3>4. CASE SendEnds(r)
      BY <3>4 DEF SendEnds, directory, ArrivedOrServed, NotifyTypeOK
    <3>5. QED
      BY <2>2, <3>1, <3>2, <3>3, <3>4 DEF Transfer
  <2>3. CASE LosePower
    BY <2>3 DEF LosePower, Restarted, sibling, ArrivedOrServed, NotifyTypeOK
  <2>4. CASE Killed \/ CheckDirectory \/ Watch \/ Scan
    BY <2>0, <2>4 DEF Killed, CheckDirectory, Watch, Scan, Restarted,
                      directory, sibling
  <2>5. ASSUME NEW h \in Handlers, ReadEvent(h) PROVE ArrivedOrServed'
    BY <2>0, <2>5 DEF ReadEvent, directory, sibling
  <2>6. ASSUME NEW h \in Handlers, Handle(h) PROVE ArrivedOrServed'
    <3>1. CASE Restarted /\ UNCHANGED directory
      BY <2>0, <2>6, <3>1, HandleStep DEF Restarted, directory, sibling
    <3>2. CASE ~(Restarted /\ UNCHANGED directory)
      <4>1. /\ sender' = sender /\ served \subseteq served'
            /\ \A r \in Requests : \/ entry'[r] = entry[r]
                                   \/ entry'[r] = "none" /\ r \in served'
        BY <2>6, <3>2, HandleStep DEF sibling
      <4>2. QED
        BY <4>1 DEF ArrivedOrServed
    <3>3. QED
      BY <3>1, <3>2
  <2>7. CASE UNCHANGED notifyVars
    BY <2>0, <2>7 DEF notifyVars, directory, sibling
  <2>8. QED
    BY <2>1, <2>2, <2>3, <2>4, <2>5, <2>6, <2>7 DEF NotifyNext
<1>3. ArrivedOrServed => ServedBeforeGone
  BY DEF ArrivedOrServed, ServedBeforeGone
<1>4. QED
  BY <1>1, <1>2, <1>3, NotifyTypeCorrect, PTL DEF NotifySpec

-----------------------------------------------------------------------------
(* No request is forgotten in the directory.                                *)

\* There is, or will be, a handler of the request.
Known(r) ==
  \/ scan
  \/ r \in slipped
  \/ \E h \in Handlers :
       /\ h[1] = r /\ h[2] \in {"found", "moved"}
       /\ h \in events \/ work[h].at # "none"

\* NoneForgotten holds from the look into the directory on.
KnownSinceCheck ==
  monitor \in {"checked", "watching"} =>
    \A r \in Requests : entry[r] = "file" => Known(r)

LEMMA InitKnown == NotifyInit => KnownSinceCheck
BY DEF NotifyInit, KnownSinceCheck

\* A request stays known as long as nothing ends the handlers.
LEMMA KnownStays ==
  ASSUME NEW r \in Requests, Known(r), scan' = scan, slipped \subseteq slipped',
         events \subseteq events',
         \A h \in Handlers : h[1] = r => work'[h] = work[h]
  PROVE  Known(r)'
BY DEF Known

LEMMA NextKnown ==
  NotifyTypeOK /\ KnownSinceCheck /\ [NotifyNext]_notifyVars => KnownSinceCheck'
<1> SUFFICES ASSUME NotifyTypeOK, KnownSinceCheck, [NotifyNext]_notifyVars,
                    monitor' \in {"checked", "watching"},
                    NEW r \in Requests, entry'[r] = "file"
             PROVE  Known(r)'
  BY DEF KnownSinceCheck
<1>k. monitor \in {"checked", "watching"} /\ entry[r] = "file" => Known(r)
  BY DEF KnownSinceCheck
<1>0. ASSUME UNCHANGED service, slipped' = slipped, entry[r] = "file"
      PROVE  Known(r)'
  BY <1>0, <1>k, KnownStays DEF service
<1>1. ASSUME NEW q \in Requests, BeginSend(q) PROVE Known(r)'
  <2>1. entry[r] = "file"
    BY <1>1 DEF BeginSend, NotifyTypeOK
  <2>2. QED
    BY <1>0, <1>1, <2>1 DEF BeginSend
<1>2. ASSUME NEW q \in Requests, MoveIn(q) PROVE Known(r)'
  <2>1. /\ UNCHANGED <<monitor, scan, work>>
        /\ slipped \subseteq slipped' /\ events \subseteq events'
    BY <1>2 DEF MoveIn
  <2>2. CASE q # r
    <3>1. entry[r] = "file"
      BY <1>2, <2>2 DEF MoveIn, NotifyTypeOK
    <3>2. QED
      BY <1>k, <2>1, <3>1, KnownStays
  <2>3. CASE q = r /\ monitor = "checked"
    BY <1>2, <2>3 DEF MoveIn, Known
  <2>4. CASE q = r /\ monitor = "watching"
    <3>1. sends[r] \in 1..MaxSends[r]
      <4>1. sends[r] \in Nat /\ MaxSends[r] \in Nat
        BY NotifyAssumption DEF NotifyTypeOK
      <4>2. sends[r] > 0 /\ sends[r] <= MaxSends[r]
        BY <1>2, <2>4 DEF MoveIn, NotifyTypeOK
      <4>3. QED
        BY <4>1, <4>2
    <3>2. <<r, "moved", sends[r]>> \in Handlers
      BY <3>1, HandlerOf DEF Paths
    <3>3. <<r, "moved", sends[r]>> \in events'
      BY <1>2, <2>4 DEF MoveIn
    <3>4. QED
      BY <3>2, <3>3 DEF Known
  <2>5. QED
    BY <2>1, <2>2, <2>3, <2>4
<1>3. ASSUME NEW q \in Requests, Transfer(q), ~MoveIn(q) PROVE Known(r)'
  <2>1. entry[r] = "file"
    BY <1>3 DEF Transfer, WriteTemp, SendFails, SendEnds, directory,
                NotifyTypeOK
  <2>2. QED
    BY <1>0, <1>3, <2>1 DEF Transfer, WriteTemp, SendFails, SendEnds
<1>4. CASE Killed \/ LosePower
  BY <1>4 DEF Killed, LosePower, Restarted
<1>5. CASE CheckDirectory
  <2>1. entry[r] # "none"
    BY <1>5 DEF CheckDirectory, directory
  <2>2. scan'
    BY <1>5, <2>1 DEF CheckDirectory
  <2>3. QED
    BY <2>2 DEF Known
<1>6. CASE Watch
  BY <1>6, <1>k DEF Watch, directory, Known
<1>7. CASE Scan
  <2>1. entry[r] = "file" /\ work' = [h \in Handlers |->
                               IF h \in Listed THEN Queued ELSE work[h]]
    BY <1>7 DEF Scan, directory
  <2>2. sends[r] \in 1..MaxSends[r]
    <3>1. sends[r] \in Nat /\ MaxSends[r] \in Nat
      BY NotifyAssumption DEF NotifyTypeOK
    <3>2. sends[r] > 0 /\ sends[r] <= MaxSends[r]
      BY <2>1 DEF NotifyTypeOK
    <3>3. QED
      BY <3>1, <3>2
  <2>3. <<r, "found", sends[r]>> \in Handlers
    BY <2>2, HandlerOf DEF Paths
  <2>4. <<r, "found", sends[r]>> \in Listed
    BY <2>1, <2>3 DEF Listed
  <2>5. work'[<<r, "found", sends[r]>>].at # "none"
    BY <2>1, <2>3, <2>4, StatesOK
  <2>6. QED
    BY <2>3, <2>5 DEF Known
<1>8. ASSUME NEW h \in Handlers, ReadEvent(h) PROVE Known(r)'
  <2>1. /\ UNCHANGED <<monitor, scan, slipped>> /\ entry[r] = "file"
        /\ events' = events \ {h} /\ work' = [work EXCEPT ![h] = Queued]
        /\ monitor = "watching"
    BY <1>8 DEF ReadEvent, directory
  <2>2. work'[h].at # "none" /\ \A g \in Handlers : g # h => work'[g] = work[g]
    BY <2>1, StatesOK DEF NotifyTypeOK
  <2>3. QED
    BY <1>k, <2>1, <2>2 DEF Known
<1>9. ASSUME NEW h \in Handlers, Handle(h) PROVE Known(r)'
  <2>1. CASE Restarted
    BY <2>1 DEF Restarted
  <2>2. CASE ~Restarted
    <3>1. /\ UNCHANGED <<monitor, scan, events, slipped>>
          /\ \A g \in Handlers : g # h => work'[g] = work[g]
          /\ work'[h].at = "none" =>
               (h[2] \in {"found", "moved"} => entry'[h[1]] # "file")
      BY <1>9, <2>2, HandleStep
    <3>2. entry[r] = "file"
      BY <1>9, <2>2, HandleStep
    <3>3. QED
      BY <1>k, <3>1, <3>2 DEF Known
  <2>3. QED
    BY <2>1, <2>2
<1>10. CASE UNCHANGED notifyVars
  BY <1>0, <1>10 DEF notifyVars, directory
<1>11. QED
  BY <1>1, <1>2, <1>3, <1>4, <1>5, <1>6, <1>7, <1>8, <1>9, <1>10
     DEF NotifyNext

\* Once the service watches, it knows of every request in the directory that
\* did not slip in before the watch.
THEOREM RequestsKnown == NotifySpec => []NoneForgotten
<1>1. KnownSinceCheck => NoneForgotten
  BY DEF KnownSinceCheck, Known, NoneForgotten
<1>2. QED
  BY <1>1, InitKnown, NextKnown, NotifyTypeCorrect, PTL DEF NotifySpec
=============================================================================
