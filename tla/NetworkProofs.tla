---------------------------- MODULE NetworkProofs ----------------------------
(***************************************************************************)
(* Proofs about DasNetwork for any calls, peers, records and limits.       *)
(***************************************************************************)
EXTENDS DasNetwork, SequenceTheorems, FiniteSetTheorems, TLAPS

\* Where the sender of a call can be.
queued(c) == \E i \in DOMAIN commands : commands[i] = c
routed(c) == \E p \in Peer : pending_routing[p] = c

NetTypes ==
    /\ work \in Workloads
    /\ sent \subseteq Call
    /\ reply \in [Call -> Reply]
    /\ commands \in Seq(Call)
    /\ query_id_receivers \subseteq Call
    /\ pending_routing \in [Peer -> Call \cup {NoCall}]

\* No place holds a sender twice, and only calls that were sent have one.
OneSender ==
    /\ \A i, j \in DOMAIN commands : commands[i] = commands[j] => i = j
    /\ \A p, q \in Peer : pending_routing[p] = pending_routing[q] /\ pending_routing[p] # NoCall
                            => p = q
    /\ \A c \in Call : queued(c) \/ c \in query_id_receivers \/ routed(c) => c \in sent

\* No two places hold the same sender.
OnePlace ==
    /\ \A c \in query_id_receivers : ~queued(c) /\ ~routed(c)
    /\ \A c \in Call : ~(queued(c) /\ routed(c))

\* A call has its answer exactly when no place holds its sender any more.
AnsweredOnce ==
    \A c \in Call : reply[c] # "none"
                      <=> c \in sent /\ ~(queued(c) \/ c \in query_id_receivers \/ routed(c))

SenderInv == NetTypes /\ OneSender /\ OnePlace /\ AnsweredOnce

-----------------------------------------------------------------------------
(* Calls and the command channel *)

LEMMA KindsOfCalls ==
    /\ NoCall \notin Call
    /\ \A w \in Workloads : calls(w) \subseteq Call
    /\ \A w \in Workloads : \A i \in 1..w.gets : <<"get", i>> \in Call
<1>1. ASSUME NEW w \in Workloads, NoCall \in calls(w) PROVE FALSE
  <2>1. w \in WorkloadRecord
    BY NetworkAssumption
  <2>2. w.others \subseteq {"bootstrap", "remove", "listen"}
    BY <2>1 DEF WorkloadRecord
  <2> QED
    BY <1>1, <2>2 DEF calls, NoCall
<1>2. \A w \in Workloads : \A i \in 1..w.gets : <<"get", i>> \in calls(w)
  BY DEF calls
<1> QED
  BY <1>1, <1>2 DEF Call

\* What a command leaves behind when it is taken out of the channel.
LEMMA TakeCommand ==
    ASSUME NetTypes, OneSender, commands # <<>>
    PROVE  /\ Head(commands) \in Call /\ queued(Head(commands))
           /\ Tail(commands) \in Seq(Call)
           /\ \A i, j \in DOMAIN Tail(commands) : Tail(commands)[i] = Tail(commands)[j] => i = j
           /\ \A d : (\E i \in DOMAIN Tail(commands) : Tail(commands)[i] = d)
                        <=> queued(d) /\ d # Head(commands)
<1> DEFINE t == Tail(commands)  h == Head(commands)
<1>1. /\ commands \in Seq(Call) /\ DOMAIN commands = 1..Len(commands) /\ Len(commands) \in Nat
      /\ Len(commands) > 0
  BY LenProperties, EmptySeq DEF NetTypes
<1>2. /\ h = commands[1] /\ t \in Seq(Call) /\ DOMAIN t = 1..(Len(commands) - 1)
      /\ \A i \in 1..(Len(commands) - 1) : t[i] = commands[i + 1]
  BY <1>1, HeadTailProperties
<1>3. h \in Call /\ queued(h)
  BY <1>1, <1>2 DEF queued
<1> HIDE DEF t, h
<1>4. \A i, j \in DOMAIN commands : commands[i] = commands[j] => i = j
  BY DEF OneSender
<1>5. \A i, j \in DOMAIN t : t[i] = t[j] => i = j
  <2>1. \A i \in DOMAIN t : i \in Nat /\ i + 1 \in DOMAIN commands /\ t[i] = commands[i + 1]
    BY <1>1, <1>2
  <2>2. \A i, j \in DOMAIN t : t[i] = t[j] => i + 1 = j + 1
    BY <1>4, <2>1
  <2> QED
    BY <2>1, <2>2
<1>6. ASSUME NEW d, NEW i \in DOMAIN t, t[i] = d PROVE queued(d) /\ d # h
  <2>1. i + 1 \in DOMAIN commands /\ commands[i + 1] = d /\ i + 1 # 1 /\ 1 \in DOMAIN commands
    BY <1>1, <1>2, <1>6
  <2> QED
    BY <1>2, <1>4, <2>1 DEF queued
<1>7. ASSUME NEW d, queued(d), d # h PROVE \E i \in DOMAIN t : t[i] = d
  <2>1. PICK k \in DOMAIN commands : commands[k] = d
    BY <1>7 DEF queued
  <2>2. k # 1
    BY <1>2, <1>7, <2>1
  <2>3. k - 1 \in DOMAIN t /\ (k - 1) + 1 = k
    BY <1>1, <1>2, <2>1, <2>2
  <2> QED
    BY <1>2, <2>1, <2>3
<1>8. \A d : (\E i \in DOMAIN t : t[i] = d) <=> queued(d) /\ d # h
  BY <1>6, <1>7
<1> QED
  BY <1>2, <1>3, <1>5, <1>8 DEF t, h

LEMMA SendCommand ==
    ASSUME NetTypes, OneSender, NEW c \in Call, ~queued(c)
    PROVE  /\ Append(commands, c) \in Seq(Call)
           /\ \A i, j \in DOMAIN Append(commands, c) :
                 Append(commands, c)[i] = Append(commands, c)[j] => i = j
           /\ \A d : (\E i \in DOMAIN Append(commands, c) : Append(commands, c)[i] = d)
                        <=> queued(d) \/ d = c
<1> DEFINE t == Append(commands, c)
<1>1. /\ commands \in Seq(Call) /\ DOMAIN commands = 1..Len(commands) /\ Len(commands) \in Nat
  BY LenProperties DEF NetTypes
<1>2. /\ t \in Seq(Call) /\ DOMAIN t = 1..(Len(commands) + 1)
      /\ \A i \in 1..Len(commands) : t[i] = commands[i]
      /\ t[Len(commands) + 1] = c
  BY <1>1, AppendProperties, LenProperties
<1> HIDE DEF t
<1>3. \A i \in DOMAIN t : i \in DOMAIN commands \/ i = Len(commands) + 1
  BY <1>1, <1>2
<1>4. \A i \in DOMAIN commands : t[i] # c /\ t[i] = commands[i] /\ i \in DOMAIN t
  BY <1>1, <1>2 DEF queued
<1>5. \A i, j \in DOMAIN t : t[i] = t[j] => i = j
  BY <1>2, <1>3, <1>4 DEF OneSender
<1>6. Len(commands) + 1 \in DOMAIN t
  BY <1>1, <1>2
<1>7. \A d : (\E i \in DOMAIN t : t[i] = d) <=> queued(d) \/ d = c
  BY <1>2, <1>3, <1>4, <1>6 DEF queued
<1> QED
  BY <1>2, <1>5, <1>7 DEF t

-----------------------------------------------------------------------------
(* What the steps do to senders *)

\* ReplyStable, of one step.
RepliesStay == \A c \in Call : reply[c] # "none" => reply'[c] = reply[c]

Held == SenderInv' /\ RepliesStay

LEMMA SendHolds ==
    ASSUME SenderInv, NEW c \in Call, send_command(c), UNCHANGED work
    PROVE  Held
<1>1. /\ c \notin sent /\ sent' = sent \cup {c} /\ commands' = Append(commands, c)
      /\ UNCHANGED <<work, reply, query_id_receivers, pending_routing>>
  BY DEF send_command
<1>2. ~queued(c) /\ c \notin query_id_receivers /\ ~routed(c)
  BY <1>1 DEF SenderInv, OneSender
<1>3. /\ commands' \in Seq(Call)
      /\ \A i, j \in DOMAIN commands' : commands'[i] = commands'[j] => i = j
      /\ \A d : queued(d)' <=> queued(d) \/ d = c
  BY <1>1, <1>2, SendCommand DEF SenderInv, queued
<1>4. \A d : routed(d)' <=> routed(d)
  BY <1>1 DEF routed
<1>5. NetTypes'
  BY <1>1, <1>3 DEF SenderInv, NetTypes
<1>6. OneSender'
  BY <1>1, <1>3, <1>4 DEF SenderInv, OneSender
<1>7. OnePlace'
  BY <1>1, <1>2, <1>3, <1>4 DEF SenderInv, OnePlace
<1>8. AnsweredOnce'
  BY <1>1, <1>2, <1>3, <1>4 DEF SenderInv, AnsweredOnce
<1> QED
  BY <1>1, <1>5, <1>6, <1>7, <1>8 DEF SenderInv, Held, RepliesStay

\* The worker keeps the sender of the command for the query it starts.
LEMMA QueryHolds ==
    ASSUME SenderInv, commands # <<>>, commands' = Tail(commands),
           start_query(Head(commands)), UNCHANGED <<work, sent>>
    PROVE  Held
<1> DEFINE c == Head(commands)
<1>1. /\ query_id_receivers' = query_id_receivers \cup {c}
      /\ UNCHANGED <<work, sent, reply, pending_routing>>
  BY DEF start_query
<1>2. /\ c \in Call /\ queued(c) /\ commands' \in Seq(Call)
      /\ \A i, j \in DOMAIN commands' : commands'[i] = commands'[j] => i = j
      /\ \A d : queued(d)' <=> queued(d) /\ d # c
  BY TakeCommand DEF SenderInv, queued
<1> HIDE DEF c
<1>3. \A d : routed(d)' <=> routed(d)
  BY <1>1 DEF routed
<1>4. NetTypes'
  BY <1>1, <1>2 DEF SenderInv, NetTypes
<1>5. OneSender'
  BY <1>1, <1>2, <1>3 DEF SenderInv, OneSender
<1>6. OnePlace'
  BY <1>1, <1>2, <1>3 DEF SenderInv, OnePlace
<1>7. AnsweredOnce'
  BY <1>1, <1>2, <1>3 DEF SenderInv, AnsweredOnce
<1> QED
  BY <1>1, <1>4, <1>5, <1>6, <1>7 DEF SenderInv, Held, RepliesStay

\* The worker answers the command, or drops its sender.
LEMMA AnswerHolds ==
    ASSUME SenderInv, commands # <<>>, commands' = Tail(commands),
           NEW r \in Reply \ {"none"}, reply' = answer(Head(commands), r),
           UNCHANGED <<work, sent, query_id_receivers, pending_routing>>
    PROVE  Held
<1> DEFINE c == Head(commands)
<1>1. /\ c \in Call /\ queued(c) /\ commands' \in Seq(Call)
      /\ \A i, j \in DOMAIN commands' : commands'[i] = commands'[j] => i = j
      /\ \A d : queued(d)' <=> queued(d) /\ d # c
  BY TakeCommand DEF SenderInv, queued
<1>2. reply \in [Call -> Reply] /\ reply' = [reply EXCEPT ![c] = r]
  BY DEF SenderInv, NetTypes, answer
<1> HIDE DEF c
<1>3. \A d : routed(d)' <=> routed(d)
  BY DEF routed
<1>4. ~routed(c) /\ c \notin query_id_receivers /\ c \in sent /\ reply[c] = "none"
  BY <1>1 DEF SenderInv, OnePlace, OneSender, AnsweredOnce
<1>5. NetTypes'
  BY <1>1, <1>2 DEF SenderInv, NetTypes
<1>6. OneSender'
  BY <1>1, <1>3 DEF SenderInv, OneSender
<1>7. OnePlace'
  BY <1>1, <1>3 DEF SenderInv, OnePlace
<1>8. \A d \in Call : reply'[d] = IF d = c THEN r ELSE reply[d]
  BY <1>2
<1>9. AnsweredOnce'
  BY <1>1, <1>3, <1>4, <1>8 DEF SenderInv, AnsweredOnce
<1> QED
  BY <1>4, <1>5, <1>6, <1>7, <1>8, <1>9 DEF SenderInv, Held, RepliesStay

\* The call that waits for the peer makes room for the new one.
LEMMA AddHolds ==
    ASSUME SenderInv, commands # <<>>, commands' = Tail(commands), NEW p \in Peer,
           pending_routing' = [pending_routing EXCEPT ![p] = Head(commands)],
           reply' = IF pending_routing[p] = NoCall THEN reply
                      ELSE answer(pending_routing[p], "canceled"),
           UNCHANGED <<work, sent, query_id_receivers>>
    PROVE  Held
<1> DEFINE c == Head(commands)  old == pending_routing[p]
<1>1. /\ c \in Call /\ queued(c) /\ commands' \in Seq(Call)
      /\ \A i, j \in DOMAIN commands' : commands'[i] = commands'[j] => i = j
      /\ \A d : queued(d)' <=> queued(d) /\ d # c
  BY TakeCommand DEF SenderInv, queued
<1>2. /\ reply \in [Call -> Reply] /\ pending_routing \in [Peer -> Call \cup {NoCall}]
      /\ old \in Call \cup {NoCall} /\ c # NoCall /\ NoCall \notin Call
      /\ pending_routing' = [pending_routing EXCEPT ![p] = c]
      /\ reply' = IF old = NoCall THEN reply ELSE [reply EXCEPT ![old] = "canceled"]
  BY <1>1, KindsOfCalls DEF SenderInv, NetTypes, answer
<1> HIDE DEF c
<1>3. ~routed(c) /\ c \notin query_id_receivers /\ c \in sent
  BY <1>1 DEF SenderInv, OnePlace, OneSender
<1>4. \A q \in Peer : pending_routing'[q] = IF q = p THEN c ELSE pending_routing[q]
  BY <1>2
<1>5. \A q \in Peer : pending_routing[q] # c
  BY <1>3 DEF routed
<1>6. \A d \in Call : routed(d)' <=> d = c \/ (routed(d) /\ d # old)
  <2>1. ASSUME NEW d \in Call, routed(d)' PROVE d = c \/ (routed(d) /\ d # old)
    <3>1. PICK q \in Peer : pending_routing'[q] = d
      BY <2>1 DEF routed
    <3>2. CASE q = p
      BY <1>4, <3>1, <3>2
    <3>3. CASE q # p
      <4>1. pending_routing[q] = d
        BY <1>4, <3>1, <3>3
      <4>2. d # old
        BY <1>2, <3>3, <4>1 DEF SenderInv, OneSender
      <4> QED
        BY <4>1, <4>2 DEF routed
    <3> QED
      BY <3>2, <3>3
  <2>2. ASSUME NEW d \in Call, d = c PROVE routed(d)'
    BY <1>4, <2>2 DEF routed
  <2>3. ASSUME NEW d \in Call, routed(d), d # old PROVE routed(d)'
    <3>1. PICK q \in Peer : pending_routing[q] = d
      BY <2>3 DEF routed
    <3> QED
      BY <1>4, <2>3, <3>1 DEF routed
  <2> QED
    BY <2>1, <2>2, <2>3
<1>7. old # NoCall => /\ old \in Call /\ routed(old) /\ ~queued(old) /\ old \notin query_id_receivers
                      /\ old \in sent /\ reply[old] = "none" /\ old # c
  <2>1. old # NoCall => old \in Call /\ routed(old)
    BY <1>2 DEF routed
  <2> QED
    BY <1>5, <2>1 DEF SenderInv, OnePlace, OneSender, AnsweredOnce
<1>8. NetTypes'
  <2>1. reply' \in [Call -> Reply] /\ pending_routing' \in [Peer -> Call \cup {NoCall}]
    BY <1>1, <1>2 DEF Reply
  <2> QED
    BY <1>1, <2>1 DEF SenderInv, NetTypes
<1>9. OneSender'
  <2>1. \A q, o \in Peer : pending_routing'[q] = pending_routing'[o] /\ pending_routing'[q] # NoCall
                             => q = o
    BY <1>4, <1>5 DEF SenderInv, OneSender
  <2>2. \A d \in Call : queued(d)' \/ d \in query_id_receivers' \/ routed(d)' => d \in sent'
    BY <1>1, <1>3, <1>6 DEF SenderInv, OneSender
  <2> QED
    BY <1>1, <2>1, <2>2 DEF OneSender
<1>10. OnePlace'
  <2>1. query_id_receivers \subseteq Call
    BY DEF SenderInv, NetTypes
  <2> QED
    BY <1>1, <1>3, <1>6, <2>1 DEF SenderInv, OnePlace
<1>11. \A d \in Call : reply'[d] = IF d = old THEN "canceled" ELSE reply[d]
  BY <1>2
<1>12. AnsweredOnce'
  BY <1>1, <1>3, <1>6, <1>7, <1>11, <1>2 DEF SenderInv, AnsweredOnce
<1> QED
  BY <1>2, <1>7, <1>8, <1>9, <1>10, <1>11, <1>12 DEF SenderInv, Held, RepliesStay

\* A query reports: only a sender that is still there gets the answer.
LEMMA ReportHolds ==
    ASSUME SenderInv, NEW c \in Call, NEW r \in Reply \ {"none"}, report(c, r),
           UNCHANGED <<work, sent, commands, pending_routing>>
    PROVE  Held
<1>1. /\ query_id_receivers' = query_id_receivers \ {c} /\ reply \in [Call -> Reply]
      /\ reply' = IF c \in query_id_receivers THEN [reply EXCEPT ![c] = r] ELSE reply
  BY DEF report, take_sender, answer, SenderInv, NetTypes
<1>2. \A d : (routed(d)' <=> routed(d)) /\ (queued(d)' <=> queued(d))
  BY DEF routed, queued
<1>3. c \in query_id_receivers => ~routed(c) /\ ~queued(c) /\ c \in sent /\ reply[c] = "none"
  BY DEF SenderInv, OnePlace, OneSender, AnsweredOnce
<1>4. NetTypes'
  BY <1>1 DEF SenderInv, NetTypes
<1>5. OneSender' /\ OnePlace'
  BY <1>1, <1>2 DEF SenderInv, OneSender, OnePlace
<1>6. \A d \in Call : reply'[d] = IF d = c /\ c \in query_id_receivers THEN r ELSE reply[d]
  BY <1>1
<1>7. AnsweredOnce'
  BY <1>1, <1>2, <1>3, <1>6 DEF SenderInv, AnsweredOnce
<1> QED
  BY <1>3, <1>4, <1>5, <1>6, <1>7 DEF SenderInv, Held, RepliesStay

LEMMA RoutingHolds ==
    ASSUME SenderInv, NEW p \in Peer, routing_updated(p), UNCHANGED work
    PROVE  Held
<1> DEFINE old == pending_routing[p]
<1>1. /\ reply \in [Call -> Reply] /\ pending_routing \in [Peer -> Call \cup {NoCall}]
      /\ old \in Call \cup {NoCall} /\ NoCall \notin Call
      /\ pending_routing' = [pending_routing EXCEPT ![p] = NoCall]
      /\ reply' = IF old = NoCall THEN reply ELSE [reply EXCEPT ![old] = "ok"]
      /\ UNCHANGED <<work, sent, commands, query_id_receivers>>
  BY KindsOfCalls DEF SenderInv, NetTypes, answer, routing_updated
<1>2. \A q \in Peer : pending_routing'[q] = IF q = p THEN NoCall ELSE pending_routing[q]
  BY <1>1
<1>3. \A d \in Call : (routed(d)' <=> routed(d) /\ d # old) /\ (queued(d)' <=> queued(d))
  <2>1. ASSUME NEW d \in Call, routed(d)' PROVE routed(d) /\ d # old
    <3>1. PICK q \in Peer : pending_routing'[q] = d
      BY <2>1 DEF routed
    <3>2. q # p /\ pending_routing[q] = d
      BY <1>1, <1>2, <3>1
    <3> QED
      BY <1>1, <3>2 DEF SenderInv, OneSender, routed
  <2>2. ASSUME NEW d \in Call, routed(d), d # old PROVE routed(d)'
    BY <1>2, <2>2 DEF routed
  <2> QED
    BY <1>1, <2>1, <2>2 DEF queued
<1>4. old # NoCall => /\ old \in Call /\ routed(old) /\ ~queued(old) /\ old \notin query_id_receivers
                      /\ old \in sent /\ reply[old] = "none"
  <2>1. old # NoCall => old \in Call /\ routed(old)
    BY <1>1 DEF routed
  <2> QED
    BY <2>1 DEF SenderInv, OnePlace, OneSender, AnsweredOnce
<1>5. NetTypes'
  <2>1. reply' \in [Call -> Reply] /\ pending_routing' \in [Peer -> Call \cup {NoCall}]
    BY <1>1 DEF Reply
  <2> QED
    BY <1>1, <2>1 DEF SenderInv, NetTypes
<1>6. OneSender'
  BY <1>1, <1>2, <1>3 DEF SenderInv, OneSender
<1>7. OnePlace'
  BY <1>1, <1>3 DEF SenderInv, OnePlace, NetTypes
<1>8. \A d \in Call : reply'[d] = IF d = old THEN "ok" ELSE reply[d]
  BY <1>1
<1>9. AnsweredOnce'
  BY <1>1, <1>3, <1>4, <1>8 DEF SenderInv, AnsweredOnce
<1> QED
  BY <1>1, <1>4, <1>5, <1>6, <1>7, <1>8, <1>9 DEF SenderInv, Held, RepliesStay

LEMMA CommandHolds ==
    ASSUME SenderInv, handle_command, UNCHANGED work
    PROVE  Held
<1> DEFINE c == Head(commands)
<1>1. commands # <<>> /\ commands' = Tail(commands) /\ UNCHANGED <<work, sent>>
  BY DEF handle_command
<1>2. \/ start_query(c)
      \/ \E r \in {"ok", "err", "canceled"} :
            reply' = answer(c, r) /\ UNCHANGED <<query_id_receivers, pending_routing>>
      \/ handle_add(c)
  BY DEF handle_command, handle_get, handle_put, handle_put_failed, handle_bootstrap,
         handle_remove, handle_listen, drop_sender, reply_now
<1>3. CASE start_query(c)
  BY <1>1, <1>3, QueryHolds
<1>4. ASSUME NEW r \in {"ok", "err", "canceled"}, reply' = answer(c, r),
             UNCHANGED <<query_id_receivers, pending_routing>>
      PROVE  Held
  BY <1>1, <1>4, AnswerHolds DEF Reply
<1>5. CASE handle_add(c)
  BY <1>1, <1>5, AddHolds DEF handle_add
<1> QED
  BY <1>2, <1>3, <1>4, <1>5

LEMMA SenderStep == SenderInv /\ [NetNext]_vars => SenderInv' /\ RepliesStay
<1> SUFFICES ASSUME SenderInv, [NetNext]_vars PROVE Held
  BY DEF Held
<1>1. ASSUME UNCHANGED <<work, sent, reply, commands, query_id_receivers, pending_routing>>
      PROVE  Held
  BY <1>1 DEF Held, SenderInv, RepliesStay, NetTypes, OneSender, OnePlace, AnsweredOnce,
              queued, routed
<1>2. CASE UNCHANGED vars
  BY <1>1, <1>2 DEF vars, callVars
<1>3. ASSUME NEW c \in Call, found_record(c) \/ finished(c), UNCHANGED work PROVE Held
  <2>1. \E r \in Reply \ {"none"} : report(c, r)
    BY <1>3 DEF found_record, finished, finished_get, finished_put, finished_bootstrap, Reply
  <2>2. UNCHANGED <<work, sent, commands, pending_routing>>
    BY <1>3 DEF found_record, finished, finished_get, finished_put, finished_bootstrap,
                eventUnchanged
  <2> QED
    BY <2>1, <2>2, ReportHolds
<1>4. ASSUME get_values \/ \E p \in Peer : discovered(p) \/ expired(p) \/ handle_retry_connection(p),
             UNCHANGED work
      PROVE  Held
  BY <1>1, <1>4 DEF get_values, discovered, expired, handle_retry_connection, callVars
<1>5. CASE NetNext
  BY <1>3, <1>4, <1>5, SendHolds, CommandHolds, RoutingHolds DEF NetNext
<1> QED
  BY <1>2, <1>5

LEMMA SenderInit == NetInit => SenderInv
<1> SUFFICES ASSUME NetInit PROVE SenderInv
  OBVIOUS
<1>1. /\ work \in Workloads /\ sent = {} /\ reply = [c \in Call |-> "none"]
      /\ commands = <<>> /\ query_id_receivers = {} /\ pending_routing = [p \in Peer |-> NoCall]
  BY DEF NetInit
<1>2. NoCall \notin Call
  BY KindsOfCalls
<1>3. NetTypes
  BY <1>1 DEF NetTypes, Reply
<1>4. \A c \in Call : ~queued(c) /\ ~routed(c)
  BY <1>1, <1>2 DEF queued, routed
<1> QED
  BY <1>1, <1>3, <1>4 DEF SenderInv, OneSender, OnePlace, AnsweredOnce

\* A set in which all elements are the same.
LEMMA AtMostOne ==
    ASSUME NEW S, \A x, y \in S : x = y
    PROVE  Cardinality(S) = IF S = {} THEN 0 ELSE 1
<1>1. CASE S = {}
  BY <1>1, FS_EmptySet
<1>2. CASE S # {}
  <2>1. PICK x : x \in S
    BY <1>2
  <2>2. S = {x}
    BY <2>1
  <2> QED
    BY <1>2, <2>2, FS_Singleton
<1> QED
  BY <1>1, <1>2

\* A caller waits exactly while one place of the worker holds its sender, for any calls
\* and peers and any order of commands and events (handle_command,
\* handle_kademlia_event).
THEOREM SendersAreHeldOnce == NetSpec => []SenderHeldOnce
<1>1. SenderInv => SenderHeldOnce
  <2> SUFFICES ASSUME SenderInv, NEW c \in sent
               PROVE  sender_places(c) = IF reply[c] = "none" THEN 1 ELSE 0
    BY DEF SenderHeldOnce
  <2> DEFINE C == {i \in DOMAIN commands : commands[i] = c}
             P == {p \in Peer : pending_routing[p] = c}
  <2>1. c \in Call /\ c # NoCall
    BY KindsOfCalls DEF SenderInv, NetTypes
  <2>2. Cardinality(C) = IF queued(c) THEN 1 ELSE 0
    <3>1. \A i, j \in C : i = j
      BY DEF SenderInv, OneSender
    <3>2. C = {} <=> ~queued(c)
      BY DEF queued
    <3> HIDE DEF C
    <3> QED
      BY <3>1, <3>2, AtMostOne
  <2>3. Cardinality(P) = IF routed(c) THEN 1 ELSE 0
    <3>1. \A p, q \in P : p = q
      BY <2>1 DEF SenderInv, OneSender
    <3>2. P = {} <=> ~routed(c)
      BY DEF routed
    <3> HIDE DEF P
    <3> QED
      BY <3>1, <3>2, AtMostOne
  <2>4. /\ reply[c] # "none" <=> ~(queued(c) \/ c \in query_id_receivers \/ routed(c))
        /\ c \in query_id_receivers => ~queued(c) /\ ~routed(c)
        /\ ~(queued(c) /\ routed(c))
    BY <2>1 DEF SenderInv, OnePlace, AnsweredOnce
  <2>5. sender_places(c) = Cardinality(C) + (IF c \in query_id_receivers THEN 1 ELSE 0)
                             + Cardinality(P)
    BY DEF sender_places
  <2> HIDE DEF C, P
  <2> QED
    BY <2>2, <2>3, <2>4, <2>5
<1> QED
  BY <1>1, SenderInit, SenderStep, PTL DEF NetSpec

\* No event changes what a caller was told (handle_kademlia_event).
THEOREM RepliesAreStable == NetSpec => ReplyStable
<1>1. SenderInv /\ [NetNext]_vars => [RepliesStay]_vars
  BY SenderStep
<1>2. NetSpec => []SenderInv
  BY SenderInit, SenderStep, PTL DEF NetSpec
<1> QED
  BY <1>1, <1>2, PTL DEF NetSpec, ReplyStable, RepliesStay

-----------------------------------------------------------------------------
(* Results *)

\* Only the record that a query found is a good answer to a get, the calls that wait for
\* a peer are add_address calls, and a result stands for an answer that was there.
ResultInv ==
    /\ SenderInv
    /\ results \in Seq({"some", "none"}) /\ Len(results) <= work.gets
    /\ \A c \in Call : kind(c) = "get" /\ reply[c] = "ok" => c \in found
    /\ \A p \in Peer : pending_routing[p] # NoCall => kind(pending_routing[p]) = "add"
    /\ \A i \in DOMAIN results :
          /\ reply[<<"get", i>>] # "none"
          /\ results[i] = "some" <=> reply[<<"get", i>>] = "ok"

\* The keys of a chunk follow the results so far.
LEMMA ChunkKeys ==
    ASSUME ResultInv
    PROVE  /\ Cardinality(chunk) \in Nat
           /\ Len(results) + Cardinality(chunk) <= work.gets
           /\ \A n \in 1..Cardinality(chunk) : Len(results) + n \in chunk
<1>1. work.gets \in Nat /\ Len(results) \in Nat /\ Len(results) <= work.gets
  <2>1. work \in WorkloadRecord
    BY NetworkAssumption DEF ResultInv, SenderInv, NetTypes
  <2> QED
    BY <2>1, LenProperties DEF WorkloadRecord, ResultInv
<1>2. ParallelLimit \in Nat
  BY NetworkAssumption
<1> DEFINE k == Len(results)
           m == IF work.gets < k + ParallelLimit THEN work.gets ELSE k + ParallelLimit
<1>3. m \in Nat /\ k \in Nat /\ k <= m /\ m <= work.gets /\ chunk = (k + 1)..m
  BY <1>1, <1>2 DEF chunk
<1> HIDE DEF m
<1>4. Cardinality(chunk) = m - k
  <2>1. k + 1 \in Int /\ m \in Int
    BY <1>3
  <2>2. Cardinality((k + 1)..m) = IF k + 1 > m THEN 0 ELSE m - (k + 1) + 1
    BY <2>1, FS_Interval
  <2> QED
    BY <1>3, <2>2
<1> QED
  BY <1>3, <1>4

\* Steps that add no result: answers to get calls other than a record found are none or
\* an error, and the answers that results stand for are there.
LEMMA ResultsKept ==
    ASSUME ResultInv, SenderInv', RepliesStay, found \subseteq found', UNCHANGED <<work, results>>,
           \A c \in Call : kind(c) = "get" /\ reply'[c] = "ok" => reply[c] = "ok" \/ c \in found',
           \A p \in Peer : \/ pending_routing'[p] \in {pending_routing[p], NoCall}
                           \/ kind(pending_routing'[p]) = "add"
    PROVE  ResultInv'
<1>1. \A i \in DOMAIN results : <<"get", i>> \in Call
  <2>1. work \in WorkloadRecord /\ work \in Workloads
    BY NetworkAssumption DEF ResultInv, SenderInv, NetTypes
  <2>2. work.gets \in Nat /\ DOMAIN results = 1..Len(results) /\ Len(results) \in Nat
        /\ Len(results) <= work.gets
    BY <2>1, LenProperties DEF WorkloadRecord, ResultInv
  <2>3. \A i \in DOMAIN results : i \in 1..work.gets
    BY <2>2
  <2> QED
    BY <2>1, <2>3, KindsOfCalls
<1>2. \A i \in DOMAIN results : reply'[<<"get", i>>] = reply[<<"get", i>>]
  BY <1>1 DEF ResultInv, RepliesStay
<1> QED
  BY <1>2 DEF ResultInv

LEMMA ResultStep == ResultInv /\ [NetNext]_vars => ResultInv'
<1> SUFFICES ASSUME ResultInv, [NetNext]_vars PROVE ResultInv'
  OBVIOUS
<1>1. SenderInv /\ SenderInv' /\ RepliesStay
  BY SenderStep DEF ResultInv
<1>2. reply \in [Call -> Reply] /\ NoCall \notin Call
      /\ pending_routing \in [Peer -> Call \cup {NoCall}]
  BY <1>1, KindsOfCalls DEF SenderInv, NetTypes
<1>3. ASSUME UNCHANGED <<work, reply, pending_routing, found, results>> PROVE ResultInv'
  BY <1>1, <1>3, ResultsKept
<1>4. CASE UNCHANGED vars
  BY <1>3, <1>4 DEF vars, callVars, recordVars
<1>5. ASSUME NEW c \in Call, found_record(c), UNCHANGED work PROVE ResultInv'
  <2>1. /\ found' = found \cup {c} /\ UNCHANGED <<pending_routing, results>>
        /\ reply' = reply \/ reply' = [reply EXCEPT ![c] = "ok"]
    BY <1>5 DEF found_record, report, answer, eventUnchanged
  <2> QED
    BY <1>1, <1>2, <1>5, <2>1, ResultsKept
<1>6. ASSUME NEW c \in Call, finished(c), UNCHANGED work PROVE ResultInv'
  <2>1. UNCHANGED <<pending_routing, results, found>>
    BY <1>6 DEF finished, finished_get, finished_put, finished_bootstrap, eventUnchanged,
                recordVars
  <2>2. PICK r \in {"ok", "err"} : report(c, r) /\ (kind(c) = "get" => r = "err")
    BY <1>6 DEF finished, finished_get, finished_put, finished_bootstrap
  <2>3. reply' = reply \/ reply' = [reply EXCEPT ![c] = r]
    BY <2>2 DEF report, answer
  <2> QED
    BY <1>1, <1>2, <1>6, <2>1, <2>2, <2>3, ResultsKept
<1>7. ASSUME NEW p \in Peer, routing_updated(p), UNCHANGED work PROVE ResultInv'
  <2>1. /\ UNCHANGED <<results, found>>
        /\ pending_routing' = [pending_routing EXCEPT ![p] = NoCall]
        /\ \/ reply' = reply
           \/ /\ pending_routing[p] # NoCall
              /\ reply' = [reply EXCEPT ![pending_routing[p]] = "ok"]
    BY <1>7 DEF routing_updated, answer, recordVars
  <2>2. pending_routing[p] # NoCall => kind(pending_routing[p]) = "add"
    BY DEF ResultInv
  <2> QED
    BY <1>1, <1>2, <1>7, <2>1, <2>2, ResultsKept
<1>8. ASSUME handle_command, UNCHANGED work PROVE ResultInv'
  <2> DEFINE c == Head(commands)
  <2>1. UNCHANGED <<found, results>> /\ c \in Call
    BY <1>1, <1>8, TakeCommand DEF handle_command, SenderInv
  <2>2. CASE handle_add(c)
    <3>1. PICK p \in Peer :
             /\ pending_routing' = [pending_routing EXCEPT ![p] = c]
             /\ reply' = reply \/ reply' = [reply EXCEPT ![pending_routing[p]] = "canceled"]
      BY <2>2 DEF handle_add, answer
    <3>2. kind(c) = "add"
      BY <2>2 DEF handle_add
    <3> HIDE DEF c
    <3> QED
      BY <1>1, <1>2, <1>8, <2>1, <3>1, <3>2, ResultsKept
  <2>3. CASE ~handle_add(c)
    <3>1. /\ UNCHANGED pending_routing
          /\ \/ reply' = reply
             \/ \E r \in Reply : reply' = [reply EXCEPT ![c] = r] /\ (r = "ok" => kind(c) # "get")
      BY <1>8, <2>3 DEF handle_command, handle_get, handle_put, handle_put_failed,
         handle_bootstrap, handle_remove, handle_listen, start_query, drop_sender, reply_now,
         answer, Reply
    <3> HIDE DEF c
    <3> QED
      BY <1>1, <1>2, <1>8, <2>1, <3>1, ResultsKept
  <2> QED
    BY <2>2, <2>3
<1>9. ASSUME get_values, UNCHANGED work PROVE ResultInv'
  <2>1. /\ results' = results \o chunk_results
        /\ UNCHANGED <<reply, pending_routing, found>>
        /\ \A i \in chunk : reply[<<"get", i>>] # "none"
    BY <1>9 DEF get_values, callVars, recordVars
  <2>2. /\ Cardinality(chunk) \in Nat /\ Len(results) + Cardinality(chunk) <= work.gets
        /\ \A n \in 1..Cardinality(chunk) : Len(results) + n \in chunk
    BY ChunkKeys
  <2>3. /\ chunk_results \in Seq({"some", "none"}) /\ Len(chunk_results) = Cardinality(chunk)
        /\ \A n \in 1..Cardinality(chunk) : chunk_results[n] = get_value(Len(results) + n)
    <3>1. \A i : get_value(i) \in {"some", "none"}
      BY DEF get_value
    <3>2. ASSUME NEW N \in Nat, NEW f, f = [n \in 1..N |-> get_value(Len(results) + n)]
          PROVE  /\ f \in Seq({"some", "none"}) /\ Len(f) = N
                 /\ \A n \in 1..N : f[n] = get_value(Len(results) + n)
      BY <3>1, <3>2
    <3> QED
      BY <2>2, <3>2 DEF chunk_results
  <2>4. /\ results \in Seq({"some", "none"}) /\ Len(results) \in Nat
        /\ DOMAIN results = 1..Len(results)
    BY LenProperties DEF ResultInv
  <2>5. /\ results' \in Seq({"some", "none"})
        /\ Len(results') = Len(results) + Cardinality(chunk)
        /\ \A i \in 1..(Len(results) + Cardinality(chunk)) :
              results'[i] = IF i <= Len(results) THEN results[i]
                              ELSE chunk_results[i - Len(results)]
    <3>1. ASSUME NEW S, NEW s \in Seq(S), NEW t \in Seq(S)
          PROVE  /\ s \o t \in Seq(S) /\ Len(s \o t) = Len(s) + Len(t)
                 /\ \A i \in 1..(Len(s) + Len(t)) :
                       (s \o t)[i] = IF i <= Len(s) THEN s[i] ELSE t[i - Len(s)]
      BY ConcatProperties
    <3>2. /\ results \o chunk_results \in Seq({"some", "none"})
          /\ Len(results \o chunk_results) = Len(results) + Len(chunk_results)
          /\ \A i \in 1..(Len(results) + Len(chunk_results)) :
                (results \o chunk_results)[i] = IF i <= Len(results) THEN results[i]
                                                   ELSE chunk_results[i - Len(results)]
      BY <2>3, <2>4, <3>1
    <3> QED
      BY <2>1, <2>3, <3>2, Zenon
  <2>6. ASSUME NEW i \in DOMAIN results'
        PROVE  /\ reply[<<"get", i>>] # "none"
               /\ results'[i] = "some" <=> reply[<<"get", i>>] = "ok"
    <3>1. i \in 1..(Len(results) + Cardinality(chunk))
      BY <2>5, LenProperties
    <3>2. CASE i <= Len(results)
      <4>1. i \in DOMAIN results /\ results'[i] = results[i]
        BY <2>2, <2>4, <2>5, <3>1, <3>2
      <4> QED
        BY <4>1 DEF ResultInv
    <3>3. CASE i > Len(results)
      <4> DEFINE n == i - Len(results)
      <4>1. n \in 1..Cardinality(chunk) /\ Len(results) + n = i
        BY <2>2, <2>4, <3>1, <3>3
      <4>2. results'[i] = get_value(i) /\ i \in chunk
        BY <2>2, <2>3, <2>4, <2>5, <3>1, <3>3, <4>1
      <4> QED
        BY <2>1, <4>2 DEF get_value
    <3> QED
      BY <2>4, <3>1, <3>2, <3>3
  <2> QED
    BY <1>1, <1>9, <2>1, <2>2, <2>5, <2>6 DEF ResultInv
<1>10. ASSUME UNCHANGED work,
              \/ \E c \in Call : send_command(c)
              \/ \E p \in Peer : discovered(p) \/ expired(p) \/ handle_retry_connection(p)
       PROVE  ResultInv'
  BY <1>3, <1>10 DEF send_command, discovered, expired, handle_retry_connection, callVars,
                     recordVars
<1>11. CASE NetNext
  BY <1>5, <1>6, <1>7, <1>8, <1>9, <1>10, <1>11 DEF NetNext
<1> QED
  BY <1>4, <1>11

\* get_values gives the n-th key the answer to the n-th call, and a record only when a
\* query found one, for any number of keys, chunks and orders of events (get_values).
THEOREM ResultsFollowKeys == NetSpec => []ResultsMatchKeys
<1>1. NetInit => ResultInv
  <2> SUFFICES ASSUME NetInit PROVE ResultInv
    OBVIOUS
  <2>1. SenderInv
    BY SenderInit
  <2>2. /\ work \in Workloads /\ results = <<>> /\ reply = [c \in Call |-> "none"]
        /\ pending_routing = [p \in Peer |-> NoCall]
    BY DEF NetInit
  <2>3. work.gets \in Nat
    BY <2>2, NetworkAssumption DEF WorkloadRecord
  <2> QED
    BY <2>1, <2>2, <2>3 DEF ResultInv
<1>2. ResultInv => ResultsMatchKeys
  <2> SUFFICES ASSUME ResultInv, NEW i \in DOMAIN results
               PROVE  results[i] = "some" => <<"get", i>> \in found
    BY DEF ResultsMatchKeys, ResultInv
  <2>1. work \in WorkloadRecord /\ work \in Workloads
    BY NetworkAssumption DEF ResultInv, SenderInv, NetTypes
  <2>2. work.gets \in Nat /\ DOMAIN results = 1..Len(results) /\ Len(results) \in Nat
        /\ Len(results) <= work.gets
    BY <2>1, LenProperties DEF WorkloadRecord, ResultInv
  <2>3. <<"get", i>> \in Call /\ kind(<<"get", i>>) = "get"
    BY <2>1, <2>2, KindsOfCalls DEF kind
  <2> QED
    BY <2>3 DEF ResultInv
<1> QED
  BY <1>1, <1>2, ResultStep, PTL DEF NetSpec
=============================================================================
