------------------------- MODULE SubscriptionProofs -------------------------
(***************************************************************************)
(* More about KalshiWS, for every set of tickers and every bound: what the *)
(* collector believes to be subscribed is what the server will stream, and *)
(* a loss in the only market that is mirrored does not go unnoticed.       *)
(***************************************************************************)
EXTENDS KalshiWSProofs

-----------------------------------------------------------------------------
(***************************************************************************)
(* The commands under way                                                  *)
(***************************************************************************)

\* A command sent last has the last word.
LEMMA PendingAppend ==
    ASSUME TypeOK, NEW c \in Command, cmds' = Append(cmds, c), srvSubs' = srvSubs,
           NEW t \in Tickers
    PROVE  t \in Pending' <=> Adds(c, t) \/ (t \in Pending /\ ~Removes(c, t))
<1>1. /\ cmds \in Seq(Command) /\ Len(cmds) \in Nat
      /\ Len(cmds') = Len(cmds) + 1 /\ cmds'[Len(cmds) + 1] = c
      /\ \A i \in 1 .. Len(cmds) : cmds'[i] = cmds[i]
  BY DEF TypeOK
<1>. DEFINE n == Len(cmds)
<1>2. ASSUME t \in Pending'
      PROVE  Adds(c, t) \/ (t \in Pending /\ ~Removes(c, t))
  <2>1. CASE t \in srvSubs /\ \A i \in 1 .. n + 1 : ~Removes(cmds'[i], t)
    <3>1. ~Removes(c, t) /\ \A i \in 1 .. n : ~Removes(cmds[i], t)
      BY <1>1, <2>1
    <3>. QED  BY <2>1, <3>1 DEF Pending
  <2>2. CASE \E i \in 1 .. n + 1 : /\ Adds(cmds'[i], t)
                                   /\ \A j \in i + 1 .. n + 1 : ~Removes(cmds'[j], t)
    <3>1. PICK i \in 1 .. n + 1 : /\ Adds(cmds'[i], t)
                                  /\ \A j \in i + 1 .. n + 1 : ~Removes(cmds'[j], t)
      BY <2>2
    <3>2. CASE i = n + 1
      BY <1>1, <3>1, <3>2
    <3>3. CASE i \in 1 .. n
      <4>1. Adds(cmds[i], t) /\ ~Removes(c, t)
        BY <1>1, <3>1, <3>3
      <4>2. \A j \in i + 1 .. n : ~Removes(cmds[j], t)
        BY <1>1, <3>1, <3>3
      <4>. QED  BY <3>3, <4>1, <4>2 DEF Pending
    <3>. QED  BY <1>1, <3>2, <3>3
  <2>. QED  BY <1>1, <1>2, <2>1, <2>2 DEF Pending
<1>3. ASSUME Adds(c, t)
      PROVE  t \in Pending'
  <2>1. n + 1 \in 1 .. Len(cmds') /\ Adds(cmds'[n + 1], t)
    BY <1>1, <1>3
  <2>2. \A j \in (n + 1) + 1 .. Len(cmds') : ~Removes(cmds'[j], t)
    BY <1>1
  <2>. QED  BY <2>1, <2>2 DEF Pending
<1>4. ASSUME t \in Pending, ~Removes(c, t)
      PROVE  t \in Pending'
  <2>1. CASE t \in srvSubs /\ \A i \in 1 .. n : ~Removes(cmds[i], t)
    <3>1. \A i \in 1 .. Len(cmds') : ~Removes(cmds'[i], t)
      BY <1>1, <1>4, <2>1
    <3>. QED  BY <2>1, <3>1 DEF Pending
  <2>2. CASE \E i \in 1 .. n : /\ Adds(cmds[i], t)
                               /\ \A j \in i + 1 .. n : ~Removes(cmds[j], t)
    <3>1. PICK i \in 1 .. n : /\ Adds(cmds[i], t)
                              /\ \A j \in i + 1 .. n : ~Removes(cmds[j], t)
      BY <2>2
    <3>2. i \in 1 .. Len(cmds') /\ Adds(cmds'[i], t)
      BY <1>1, <3>1
    <3>3. \A j \in i + 1 .. Len(cmds') : ~Removes(cmds'[j], t)
      BY <1>1, <1>4, <3>1
    <3>. QED  BY <3>2, <3>3 DEF Pending
  <2>. QED  BY <1>4, <2>1, <2>2 DEF Pending
<1>. QED  BY <1>2, <1>3, <1>4

\* A command that is carried out changes nothing about what is to come.
LEMMA PendingTail ==
    ASSUME TypeOK, cmds # <<>>, cmds' = Tail(cmds), NEW t \in Tickers,
           t \in srvSubs' <=> \/ Adds(Head(cmds), t)
                              \/ t \in srvSubs /\ ~Removes(Head(cmds), t)
    PROVE  t \in Pending' <=> t \in Pending
<1>. DEFINE n == Len(cmds)
<1>1. /\ n \in Nat /\ n > 0 /\ Len(cmds') = n - 1 /\ cmds[1] = Head(cmds)
      /\ \A i \in 1 .. n - 1 : cmds'[i] = cmds[i + 1]
  BY DEF TypeOK
<1>2. \A i \in 1 .. n : i = 1 \/ (i - 1 \in 1 .. n - 1 /\ cmds[i] = cmds'[i - 1])
  BY <1>1
<1>3. ~(Adds(Head(cmds), t) /\ Removes(Head(cmds), t))
  BY DEF Adds, Removes
<1>. HIDE DEF n
<1>4. ASSUME t \in Pending'
      PROVE  t \in Pending
  <2>1. CASE t \in srvSubs' /\ \A i \in 1 .. n - 1 : ~Removes(cmds'[i], t)
    <3>1. \A j \in 1 .. n : j # 1 => ~Removes(cmds[j], t)
      BY <1>1, <1>2, <2>1
    <3>2. CASE Adds(Head(cmds), t)
      <4>1. 1 \in 1 .. n /\ Adds(cmds[1], t) /\ \A j \in 1 + 1 .. n : ~Removes(cmds[j], t)
        BY <1>1, <3>1, <3>2
      <4>. QED  BY <4>1 DEF Pending, n
    <3>3. CASE t \in srvSubs /\ ~Removes(Head(cmds), t)
      <4>1. \A j \in 1 .. n : ~Removes(cmds[j], t)
        BY <1>1, <3>1, <3>3
      <4>. QED  BY <3>3, <4>1 DEF Pending, n
    <3>. QED  BY <2>1, <3>2, <3>3
  <2>2. CASE \E i \in 1 .. n - 1 : /\ Adds(cmds'[i], t)
                                   /\ \A j \in i + 1 .. n - 1 : ~Removes(cmds'[j], t)
    <3>1. PICK i \in 1 .. n - 1 : /\ Adds(cmds'[i], t)
                                  /\ \A j \in i + 1 .. n - 1 : ~Removes(cmds'[j], t)
      BY <2>2
    <3>2. i + 1 \in 1 .. n /\ Adds(cmds[i + 1], t)
      BY <1>1, <3>1
    <3>3. ASSUME NEW j \in (i + 1) + 1 .. n
          PROVE  ~Removes(cmds[j], t)
      <4>1. j - 1 \in i + 1 .. n - 1 /\ j \in 1 .. n /\ j # 1
        BY <1>1
      <4>. QED  BY <1>2, <3>1, <4>1
    <3>. QED  BY <3>2, <3>3 DEF Pending, n
  <2>. QED  BY <1>1, <1>4, <2>1, <2>2 DEF Pending
<1>5. ASSUME t \in Pending
      PROVE  t \in Pending'
  <2>1. CASE t \in srvSubs /\ \A i \in 1 .. n : ~Removes(cmds[i], t)
    <3>1. t \in srvSubs' /\ \A i \in 1 .. n - 1 : ~Removes(cmds'[i], t)
      BY <1>1, <2>1
    <3>. QED  BY <1>1, <3>1 DEF Pending
  <2>2. CASE \E i \in 1 .. n : /\ Adds(cmds[i], t)
                               /\ \A j \in i + 1 .. n : ~Removes(cmds[j], t)
    <3>1. PICK i \in 1 .. n : /\ Adds(cmds[i], t)
                              /\ \A j \in i + 1 .. n : ~Removes(cmds[j], t)
      BY <2>2
    <3>2. ASSUME NEW j \in 1 .. n - 1, j + 1 > i
          PROVE  ~Removes(cmds'[j], t)
      <4>1. j + 1 \in i + 1 .. n /\ cmds'[j] = cmds[j + 1]
        BY <1>1, <3>1, <3>2
      <4>. QED  BY <3>1, <4>1
    <3>3. CASE i = 1
      <4>1. t \in srvSubs'
        BY <1>1, <1>3, <3>1, <3>3
      <4>2. \A j \in 1 .. n - 1 : ~Removes(cmds'[j], t)
        BY <1>1, <3>2, <3>3
      <4>. QED  BY <1>1, <4>1, <4>2 DEF Pending
    <3>4. CASE i # 1
      <4>1. i - 1 \in 1 .. n - 1 /\ Adds(cmds'[i - 1], t)
        BY <1>1, <1>2, <3>1, <3>4
      <4>2. \A j \in (i - 1) + 1 .. n - 1 : ~Removes(cmds'[j], t)
        BY <1>1, <3>2, <4>1
      <4>. QED  BY <1>1, <4>1, <4>2 DEF Pending
    <3>. QED  BY <3>3, <3>4
  <2>. QED  BY <1>5, <2>1, <2>2 DEF Pending, n
<1>. QED  BY <1>4, <1>5

-----------------------------------------------------------------------------
(***************************************************************************)
(* What the collector believes to be subscribed                            *)
(***************************************************************************)

\* What the server will stream is what the task that is sending has in mind:
\* between two rounds self._subscribed, in a round the local "desired" - with
\* the markets still to be removed, as long as only add_markets was sent.
Believed ==
    IF pc = "subscribe" THEN want
    ELSE CASE recon = "sleep" -> subscribed
           [] recon = "add"   -> subscribed \cup want
           [] OTHER           -> want

Agreement ==
    /\ pc # "running" => recon = "sleep"
    /\ recon = "add" => sid # None
    /\ (Live /\ rejects = 0) => Pending = Believed

\* Nothing under way and nothing believed has changed.
LEMMA AgreementQuiet ==
    ASSUME Agreement,
           UNCHANGED <<cmds, srvSubs, subscribed, want, recon, pc, rejects>>,
           sid' # None \/ sid' = sid
    PROVE  Agreement'
<1>1. Pending' = Pending /\ Believed' = Believed
  BY DEF Pending, Believed
<1>. QED  BY <1>1 DEF Agreement, Live

\* A command is sent: it turns what was to come into what is believed next.
LEMMA AgreementSend ==
    ASSUME TypeOK, Agreement, NEW c \in Command, cmds' = Append(cmds, c),
           srvSubs' = srvSubs, rejects' = rejects, pc' = pc, sid' = sid,
           pc = "running", recon' = "add" => sid # None,
           Believed' = {t \in Tickers : Adds(c, t) \/ (t \in Believed /\ ~Removes(c, t))}
    PROVE  Agreement'
<1>1. \A t \in Tickers : t \in Pending' <=> Adds(c, t) \/ (t \in Pending /\ ~Removes(c, t))
  BY PendingAppend
<1>2. Pending' \subseteq Tickers
  BY DEF Pending
<1>3. rejects = 0 => Pending' = Believed'
  BY <1>1, <1>2 DEF Agreement, Live
<1>. QED  BY <1>3 DEF Agreement

\* A command reaches the server and is carried out.
LEMMA AgreementServe == ASSUME TypeOK, Agreement, ServeCommand PROVE Agreement'
<1>. USE DEF taskVars, loopVars, budgetVars
<1>1. /\ cmds # <<>> /\ cmds' = Tail(cmds) /\ Head(cmds) \in Command
      /\ UNCHANGED <<subscribed, want, recon, pc, rejects, sid>>
  BY DEF ServeCommand, TypeOK
<1>2. ASSUME NEW t \in Tickers
      PROVE  t \in srvSubs' <=> \/ Adds(Head(cmds), t)
                                \/ t \in srvSubs /\ ~Removes(Head(cmds), t)
  BY <1>1 DEF ServeCommand, Adds, Removes, Command, Actions
<1>3. \A t \in Tickers : t \in Pending' <=> t \in Pending
  BY <1>1, <1>2, PendingTail
<1>4. Pending' = Pending
  BY <1>3 DEF Pending
<1>5. Believed' = Believed
  BY <1>1 DEF Believed
<1>. QED  BY <1>1, <1>4, <1>5 DEF Agreement, Live

\* With nothing streamed and nothing under way, nothing is to come.
LEMMA NothingPending == ASSUME cmds = <<>>, srvSubs = {} PROVE Pending = {}
BY DEF Pending

LEMMA AgreementConnect ==
    ASSUME TypeOK, StreamInv, Agreement, ConnectOK PROVE Agreement'
<1>. USE DEF taskVars, loopVars, serverVars, budgetVars
<1>1. /\ pc = "connect" /\ cmds = <<>> /\ srvSubs = {} /\ srvSubs' = {}
      /\ recon' = "sleep" /\ subscribed' = {}
  BY DEF ConnectOK, StreamInv, NoStream, Live, Agreement
<1>2. CASE active = {}
  <2>1. cmds' = <<>> /\ pc' = "running"
    BY <1>1, <1>2 DEF ConnectOK
  <2>2. Pending' = {}
    BY <1>1, <2>1 DEF Pending
  <2>. QED  BY <1>1, <2>1, <2>2 DEF Agreement, Believed
<1>3. CASE active # {}
  <2>. DEFINE c == Cmd("subscribe", active)
  <2>1. c \in Command /\ cmds' = Append(cmds, c) /\ pc' = "subscribe" /\ want' = active
    BY <1>3, WireTypes DEF ConnectOK, TypeOK, Actions
  <2>2. ASSUME NEW t \in Tickers PROVE t \in Pending' <=> t \in active
    <3>1. Adds(c, t) <=> t \in active
      BY DEF Adds, Cmd
    <3>2. Removes(c, t) <=> t \notin active
      BY DEF Removes, Cmd
    <3>. HIDE DEF c
    <3>3. t \in Pending' <=> Adds(c, t) \/ (t \in Pending /\ ~Removes(c, t))
      BY <1>1, <2>1, PendingAppend
    <3>. QED  BY <3>1, <3>2, <3>3
  <2>3. Pending' = active
    <3>1. Pending' \subseteq Tickers /\ active \subseteq Tickers
      BY DEF Pending, TypeOK
    <3>. QED  BY <2>2, <3>1
  <2>4. pc' # "running" /\ recon' # "add"
    BY <1>1, <2>1
  <2>. QED  BY <1>1, <2>1, <2>3, <2>4 DEF Agreement, Believed
<1>. QED  BY <1>2, <1>3

\* _reconcile_loop sends a command.
LEMMA AgreementReconcile ==
    ASSUME TypeOK, Agreement, ReconSubscribe \/ ReconUpdate \/ ReconDelete
    PROVE  Agreement'
<1>. USE DEF taskVars, loopVars, serverVars, budgetVars
<1>1. /\ pc = "running" /\ srvSubs' = srvSubs /\ rejects' = rejects
      /\ pc' = pc /\ sid' = sid /\ subscribed' = subscribed
      /\ subscribed \subseteq Tickers /\ active \subseteq Tickers /\ want \subseteq Tickers
  BY DEF ReconSubscribe, ReconUpdate, ReconDelete, ReconAwake, TypeOK
<1>2. CASE ReconSubscribe
  <2>. DEFINE c == Cmd("subscribe", active)
  <2>1. c \in Command
    BY <1>1, WireTypes DEF Actions
  <2>2. cmds' = Append(cmds, c) /\ recon' = "subscribe" /\ Believed' = active
    BY <1>1, <1>2 DEF ReconSubscribe, Believed
  <2>3. \A t : (Adds(c, t) <=> t \in active) /\ (Removes(c, t) <=> t \notin active)
    BY DEF Adds, Removes, Cmd
  <2>. HIDE DEF c
  <2>4. Believed' = {t \in Tickers : Adds(c, t) \/ (t \in Believed /\ ~Removes(c, t))}
    BY <1>1, <2>2, <2>3
  <2>. QED  BY <1>1, <2>1, <2>2, <2>4, AgreementSend
<1>3. CASE ReconUpdate /\ active \ subscribed # {}
  <2>. DEFINE c == Cmd("add_markets", active \ subscribed)
  <2>1. c \in Command
    BY <1>1, WireTypes DEF Actions
  <2>2. /\ cmds' = Append(cmds, c) /\ recon' = "add" /\ recon = "sleep" /\ sid # None
        /\ want' = active
    BY <1>3 DEF ReconUpdate, ReconAwake, UpdateCmds
  <2>3. Believed' = subscribed \cup active /\ Believed = subscribed
    BY <1>1, <2>2 DEF Believed
  <2>4. \A t : (Adds(c, t) <=> t \in active \ subscribed) /\ ~Removes(c, t)
    BY DEF Adds, Removes, Cmd
  <2>. HIDE DEF c
  <2>5. Believed' = {t \in Tickers : Adds(c, t) \/ (t \in Believed /\ ~Removes(c, t))}
    BY <1>1, <2>3, <2>4
  <2>. QED  BY <1>1, <2>1, <2>2, <2>5, AgreementSend
<1>4. CASE ReconUpdate /\ active \ subscribed = {}
  <2>. DEFINE c == Cmd("delete_markets", subscribed \ active)
  <2>1. c \in Command
    BY <1>1, WireTypes DEF Actions
  <2>2. /\ cmds' = Append(cmds, c) /\ recon' = "delete" /\ recon = "sleep" /\ want' = active
    BY <1>4 DEF ReconUpdate, ReconAwake, UpdateCmds
  <2>3. Believed' = active /\ Believed = subscribed
    BY <1>1, <2>2 DEF Believed
  <2>4. \A t : ~Adds(c, t) /\ (Removes(c, t) <=> t \in subscribed \ active)
    BY DEF Adds, Removes, Cmd
  <2>. HIDE DEF c
  <2>5. Believed' = {t \in Tickers : Adds(c, t) \/ (t \in Believed /\ ~Removes(c, t))}
    BY <1>1, <1>4, <2>3, <2>4
  <2>. QED  BY <1>1, <2>1, <2>2, <2>5, AgreementSend
<1>5. CASE ReconDelete
  <2>. DEFINE c == Cmd("delete_markets", subscribed \ want)
  <2>1. c \in Command
    BY <1>1, WireTypes DEF Actions
  <2>2. cmds' = Append(cmds, c) /\ recon' = "delete" /\ recon = "add" /\ want' = want
    BY <1>5 DEF ReconDelete, UpdateCmds, Agreement
  <2>3. Believed' = want /\ Believed = subscribed \cup want
    BY <1>1, <2>2 DEF Believed
  <2>4. \A t : ~Adds(c, t) /\ (Removes(c, t) <=> t \in subscribed \ want)
    BY DEF Adds, Removes, Cmd
  <2>. HIDE DEF c
  <2>5. Believed' = {t \in Tickers : Adds(c, t) \/ (t \in Believed /\ ~Removes(c, t))}
    BY <1>1, <2>3, <2>4
  <2>. QED  BY <1>1, <2>1, <2>2, <2>5, AgreementSend
<1>. QED  BY <1>2, <1>3, <1>4, <1>5

\* A resync asks for snapshots, which changes no subscription.
LEMMA AgreementGap == ASSUME TypeOK, Agreement, HandleGap PROVE Agreement'
<1>. USE DEF taskVars, loopVars, serverVars, budgetVars
<1>1. /\ pc = "running" /\ UNCHANGED <<srvSubs, subscribed, want, recon, pc, rejects, sid>>
      /\ subscribed \subseteq Tickers
  BY DEF HandleGap, Receive, TypeOK
<1>2. CASE cmds' = cmds
  BY <1>1, <1>2, AgreementQuiet
<1>3. CASE cmds' # cmds
  <2>. DEFINE c == Cmd("get_snapshot", subscribed)
  <2>1. c \in Command /\ cmds' = Append(cmds, c)
    BY <1>1, <1>3, WireTypes DEF HandleGap, UpdateCmds, Actions
  <2>2. \A t : ~Adds(c, t) /\ ~Removes(c, t)
    BY DEF Adds, Removes, Cmd
  <2>. HIDE DEF c
  <2>3. Believed' = Believed /\ Believed \subseteq Tickers
    BY <1>1 DEF Believed, TypeOK
  <2>4. Believed' = {t \in Tickers : Adds(c, t) \/ (t \in Believed /\ ~Removes(c, t))}
    BY <2>2, <2>3
  <2>5. recon' = "add" => sid # None
    BY <1>1 DEF Agreement
  <2>. QED  BY <1>1, <2>1, <2>4, <2>5, AgreementSend
<1>. QED  BY <1>2, <1>3

LEMMA AgreementStep ==
    ASSUME TypeOK, TypeOK', StreamInv, Agreement, [Next]_vars PROVE Agreement'
<1>. USE DEF hookVars, taskVars, loopVars, serverVars, historyVars, budgetVars
<1>1. CASE UNCHANGED vars \/ Finished \/ ReconIdle
  BY <1>1, AgreementQuiet DEF vars, Finished, ReconIdle
<1>2. CASE \/ Stop \/ HandleError \/ HandleSnapshot \/ HandleDelta
           \/ ResyncSent \/ Rollover \/ LoseFrame
           \/ \E t \in Tickers : SendSnapshot(t) \/ MarketMoves(t)
  BY <1>2, AgreementQuiet DEF Stop, HandleError, HandleSnapshot, HandleDelta,
       ResyncSent, Rollover, LoseFrame, SendSnapshot, MarketMoves
<1>3. CASE HandleSubscribed
  <2>1. sid' # None
    BY <1>3, HeadType, NoneAssumption DEF HandleSubscribed, Receive
  <2>. QED  BY <1>3, <2>1, AgreementQuiet DEF HandleSubscribed, Receive
<1>4. CASE LoopTop \/ BackoffDone
  <2>1. pc \in {"top", "backoff"} /\ ~Live' /\ recon' = recon /\ sid' = sid
    BY <1>4 DEF LoopTop, BackoffDone, Live
  <2>. QED  BY <2>1 DEF Agreement
<1>5. CASE ConnectionLost \/ StopExit
  BY <1>5 DEF ConnectionLost, StopExit, Agreement, Live
<1>6. CASE SubscribeSent
  <2>1. /\ pc = "subscribe" /\ pc' = "running" /\ recon' = "sleep" /\ subscribed' = want
        /\ Pending' = Pending /\ rejects' = rejects
    BY <1>6 DEF SubscribeSent, Pending, Agreement
  <2>. QED  BY <2>1 DEF Agreement, Believed, Live
<1>7. CASE ReconSent
  <2>1. /\ pc = "running" /\ pc' = "running" /\ recon' = "sleep" /\ subscribed' = want
        /\ Pending' = Pending /\ rejects' = rejects
    BY <1>7 DEF ReconSent, Pending
  <2>2. Believed = want
    BY <1>7, <2>1 DEF ReconSent, Believed
  <2>3. Believed' = want
    BY <2>1 DEF Believed
  <2>. QED  BY <2>1, <2>2, <2>3 DEF Agreement, Live
<1>8. CASE RejectCommand
  <2>1. rejects' # 0 /\ UNCHANGED <<pc, recon, sid>>
    BY <1>8 DEF RejectCommand, TypeOK
  <2>. QED  BY <2>1 DEF Agreement
<1>. QED
  BY NextCases, <1>1, <1>2, <1>3, <1>4, <1>5, <1>6, <1>7, <1>8, AgreementConnect,
     AgreementReconcile, AgreementGap, AgreementServe

LEMMA AgreementInit == Init => Agreement
BY DEF Init, Agreement, Live

\* The invariant that ties self._subscribed to what the server streams and to the
\* commands under way holds throughout (_reconcile_loop, _subscribe).
THEOREM AgreementInvariant == Spec => []Agreement
<1>1. TypeOK /\ TypeOK' /\ StreamInv /\ Agreement /\ [Next]_vars => Agreement'
  BY AgreementStep
<1>. QED  BY <1>1, AgreementInit, TypeCorrect, StreamInvariant, PTL DEF Spec

\* As long as no command was rejected, self._subscribed is, between two rounds
\* of _reconcile_loop, what the server streams once it has caught up - whatever
\* rollovers, resyncs and reconnects came before.
THEOREM SubscriptionsAgree == Spec => []SubscriptionAgreement
<1>1. Agreement => SubscriptionAgreement
  BY DEF Agreement, SubscriptionAgreement, Believed, Live
<1>. QED  BY <1>1, AgreementInvariant, PTL

-----------------------------------------------------------------------------
(***************************************************************************)
(* Sequence numbers                                                        *)
(***************************************************************************)

\* The market frames under way, of whichever market.
Numbered == {i \in 1 .. Len(chan) : chan[i].type \in MarketTypes}

\* The watermark is never ahead of the last frame taken, and the frames under
\* way carry increasing numbers, above that frame's and up to the server's.
Watermark == lastSeq # None => lastSeq <= headSeq

SequenceInv ==
    Live => /\ headSeq <= srvSeq
            /\ \A i \in Numbered : headSeq < chan[i].seq /\ chan[i].seq <= srvSeq
            /\ \A i, j \in Numbered : i < j => chan[i].seq < chan[j].seq

LEMMA NumberedType ==
    ASSUME TypeOK
    PROVE  \A i \in Numbered : /\ i \in 1 .. Len(chan)
                               /\ chan[i].seq \in Nat
                               /\ chan[i].ticker \in Tickers
<1>1. chan \in Seq(Frame)
  BY DEF TypeOK
<1>2. ASSUME NEW i \in Numbered PROVE chan[i].seq \in Nat /\ chan[i].ticker \in Tickers
  <2>1. chan[i] \in Frame
    BY <1>1 DEF Numbered
  <2>. QED  BY <2>1 DEF Numbered, Frame, SubscribedFrame, ErrorFrame, MarketTypes
<1>. QED  BY <1>2 DEF Numbered

LEMMA NumberedAppend ==
    ASSUME TypeOK, NEW e, chan' = Append(chan, e)
    PROVE  /\ \A i \in Numbered : i <= Len(chan) /\ chan'[i] = chan[i]
           /\ \A i \in Numbered' : i \in Numbered \/ i = Len(chan) + 1
           /\ Len(chan) + 1 \in Numbered' <=> e.type \in MarketTypes
           /\ chan'[Len(chan) + 1] = e
<1>1. /\ chan \in Seq(Frame) /\ Len(chan) \in Nat /\ Len(chan') = Len(chan) + 1
      /\ \A i \in 1 .. Len(chan) : chan'[i] = chan[i]
      /\ chan'[Len(chan) + 1] = e
  BY DEF TypeOK
<1>. QED  BY <1>1 DEF Numbered

LEMMA NumberedTail ==
    ASSUME TypeOK, chan # <<>>, chan' = Tail(chan)
    PROVE  /\ \A i \in Numbered' : i + 1 \in Numbered /\ chan'[i] = chan[i + 1]
           /\ \A i \in Numbered : i # 1 => i - 1 \in Numbered'
           /\ 1 \in Numbered <=> Head(chan).type \in MarketTypes
           /\ chan[1] = Head(chan)
<1>1. /\ chan \in Seq(Frame) /\ Len(chan) \in Nat /\ Len(chan) > 0
      /\ Len(chan') = Len(chan) - 1 /\ chan[1] = Head(chan)
      /\ \A i \in 1 .. Len(chan) - 1 : chan'[i] = chan[i + 1]
  BY DEF TypeOK
<1>. QED  BY <1>1 DEF Numbered

\* Nothing is added to the stream or taken from it.
LEMMA SequenceQuiet ==
    ASSUME SequenceInv, UNCHANGED <<chan, headSeq, srvSeq>>, Live' => Live
    PROVE  SequenceInv'
<1>1. Numbered' = Numbered
  BY DEF Numbered
<1>. QED  BY <1>1 DEF SequenceInv

\* A frame without a number is added.
LEMMA SequenceAnswer ==
    ASSUME TypeOK, SequenceInv, NEW e, chan' = Append(chan, e), e.type \notin MarketTypes,
           UNCHANGED <<headSeq, srvSeq>>, Live' => Live
    PROVE  SequenceInv'
<1>1. /\ Numbered' \subseteq Numbered
      /\ \A i \in Numbered' : chan'[i] = chan[i]
  BY NumberedAppend
<1>. QED  BY <1>1 DEF SequenceInv

\* A market frame is added, with the server's next number.
LEMMA SequenceMarket ==
    ASSUME TypeOK, SequenceInv, NEW e, chan' = Append(chan, e), e.type \in MarketTypes,
           e.seq = srvSeq', srvSeq' = srvSeq + 1, headSeq' = headSeq, Live' => Live
    PROVE  SequenceInv'
<1>. DEFINE n == Len(chan) + 1
<1>1. /\ \A i \in Numbered : i \in Nat /\ i < n /\ chan'[i] = chan[i] /\ chan[i].seq \in Nat
      /\ \A i \in Numbered' : i \in Numbered \/ i = n
      /\ chan'[n] = e /\ n \in Nat
      /\ headSeq \in Nat /\ srvSeq \in Nat
  <2>1. Len(chan) \in Nat
    BY DEF TypeOK
  <2>. QED  BY <2>1, NumberedAppend, NumberedType DEF TypeOK
<1>. HIDE DEF n
<1>2. ASSUME Live
      PROVE  /\ headSeq <= srvSeq
             /\ \A i \in Numbered : headSeq < chan[i].seq /\ chan[i].seq <= srvSeq
             /\ \A i, j \in Numbered : i < j => chan[i].seq < chan[j].seq
  BY <1>2 DEF SequenceInv
<1>3. ASSUME Live, NEW i \in Numbered'
      PROVE  headSeq' < chan'[i].seq /\ chan'[i].seq <= srvSeq'
  <2>1. CASE i = n
    <3>1. chan'[i].seq = srvSeq + 1 /\ srvSeq' = srvSeq + 1
      BY <1>1, <2>1
    <3>. QED  BY <1>1, <1>2, <1>3, <3>1
  <2>2. CASE i \in Numbered
    <3>1. chan'[i] = chan[i] /\ chan[i].seq \in Nat
      BY <1>1, <2>2
    <3>. QED  BY <1>1, <1>2, <1>3, <2>2, <3>1
  <2>. QED  BY <1>1, <2>1, <2>2
<1>4. ASSUME Live, NEW i \in Numbered', NEW j \in Numbered', i < j
      PROVE  chan'[i].seq < chan'[j].seq
  <2>1. i \in Numbered
    BY <1>1, <1>4
  <2>2. CASE j = n
    <3>1. chan'[j].seq = srvSeq + 1 /\ chan'[i].seq = chan[i].seq
      BY <1>1, <2>1, <2>2
    <3>. QED  BY <1>1, <1>2, <1>4, <2>1, <3>1
  <2>3. CASE j \in Numbered
    <3>1. chan'[i] = chan[i] /\ chan'[j] = chan[j]
      BY <1>1, <2>1, <2>3
    <3>. QED  BY <1>2, <1>4, <2>1, <2>3, <3>1
  <2>. QED  BY <1>1, <2>2, <2>3
<1>5. headSeq' <= srvSeq' <=> headSeq <= srvSeq + 1
  OBVIOUS
<1>6. Live => headSeq <= srvSeq + 1
  BY <1>1, <1>2
<1>. QED  BY <1>3, <1>4, <1>5, <1>6 DEF SequenceInv

\* A frame leaves the stream.
LEMMA SequenceTake ==
    ASSUME TypeOK, SequenceInv, Live, chan # <<>>, chan' = Tail(chan), srvSeq' = srvSeq,
           headSeq' = IF Head(chan).type \in MarketTypes THEN Head(chan).seq ELSE headSeq
    PROVE  SequenceInv' /\ headSeq <= headSeq'
           /\ (Head(chan).type \in MarketTypes => headSeq < headSeq')
<1>1. /\ \A i \in Numbered' : /\ i + 1 \in Numbered /\ chan'[i] = chan[i + 1]
                              /\ i \in Nat /\ i > 0
      /\ 1 \in Numbered <=> Head(chan).type \in MarketTypes
      /\ chan[1] = Head(chan)
      /\ \A i \in Numbered : chan[i].seq \in Nat
      /\ headSeq \in Nat /\ srvSeq \in Nat
  <2>1. \A i \in Numbered' : i \in Nat /\ i > 0
    BY DEF Numbered
  <2>. QED  BY <2>1, NumberedTail, NumberedType DEF TypeOK
<1>2. /\ headSeq <= srvSeq
      /\ \A i \in Numbered : headSeq < chan[i].seq /\ chan[i].seq <= srvSeq
      /\ \A i, j \in Numbered : i < j => chan[i].seq < chan[j].seq
  BY DEF SequenceInv
<1>3. headSeq' \in Nat /\ headSeq <= headSeq' /\ headSeq' <= srvSeq
  BY <1>1, <1>2
<1>4. ASSUME NEW i \in Numbered'
      PROVE  headSeq' < chan'[i].seq /\ chan'[i].seq <= srvSeq'
  <2>0. i \in Nat /\ i > 0 /\ i + 1 \in Numbered /\ chan'[i] = chan[i + 1]
    BY <1>1, <1>4
  <2>1. 1 < i + 1
    BY <2>0
  <2>2. headSeq < chan[i + 1].seq /\ chan[i + 1].seq <= srvSeq
    BY <1>2, <2>0
  <2>3. Head(chan).type \in MarketTypes => chan[1].seq < chan[i + 1].seq
    BY <1>1, <1>2, <2>0, <2>1
  <2>4. headSeq' < chan[i + 1].seq
    BY <1>1, <2>2, <2>3
  <2>. QED  BY <2>0, <2>2, <2>4
<1>5. ASSUME NEW i \in Numbered', NEW j \in Numbered', i < j
      PROVE  chan'[i].seq < chan'[j].seq
  <2>1. i + 1 < j + 1
    BY <1>1, <1>5
  <2>. QED  BY <1>1, <1>2, <1>5, <2>1
<1>. QED  BY <1>1, <1>2, <1>3, <1>4, <1>5 DEF SequenceInv

\* Every frame that leaves the stream, handled or lost.
LEMMA TakenFrame ==
    ASSUME TypeOK, StreamInv, SequenceInv, HandleRaw \/ LoseFrame
    PROVE  /\ Live /\ Live' /\ chan # <<>> /\ chan' = Tail(chan)
           /\ SequenceInv' /\ headSeq <= headSeq'
           /\ Head(chan).type \in MarketTypes => headSeq < headSeq'
<1>. USE DEF hookVars, taskVars, loopVars, serverVars, historyVars, budgetVars
<1>1. /\ chan # <<>> /\ chan' = Tail(chan) /\ UNCHANGED <<pc, srvSeq>>
      /\ headSeq' = IF Head(chan).type \in MarketTypes THEN Head(chan).seq ELSE headSeq
  BY DEF HandleRaw, HandleSubscribed, HandleError, HandleSnapshot, HandleDelta,
         HandleGap, LoseFrame, Receive, Taken, MarketTypes
<1>2. Live /\ Live'
  BY <1>1 DEF StreamInv, NoStream, Live
<1>. QED  BY <1>1, <1>2, SequenceTake

LEMMA SequenceStep ==
    ASSUME TypeOK, StreamInv, SequenceInv, Watermark, [Next]_vars
    PROVE  SequenceInv' /\ Watermark'
<1>. USE DEF hookVars, taskVars, loopVars, serverVars, historyVars, budgetVars
<1>1. CASE UNCHANGED vars \/ Finished \/ ReconIdle
  <2>1. UNCHANGED vars
    BY <1>1 DEF Finished, ReconIdle
  <2>. QED  BY <2>1, SequenceQuiet DEF vars, Live, Watermark
<1>2. CASE \/ LoopTop \/ SubscribeSent \/ BackoffDone \/ Stop \/ ReconSubscribe
           \/ ReconUpdate \/ ReconDelete \/ ReconSent \/ ResyncSent \/ Rollover
  <2>1. UNCHANGED <<chan, headSeq, srvSeq, lastSeq>> /\ (Live' => Live)
    BY <1>2 DEF LoopTop, SubscribeSent, BackoffDone, Stop, ReconSubscribe, ReconAwake,
         ReconUpdate, ReconDelete, ReconSent, ResyncSent, Rollover, Live
  <2>. QED  BY <2>1, SequenceQuiet DEF Watermark
<1>3. CASE ConnectOK
  <2>1. chan' = <<>> /\ headSeq' = 0 /\ srvSeq' \in Nat /\ lastSeq' = None
    BY <1>3 DEF ConnectOK, StreamInv, NoStream, Live, TypeOK
  <2>2. Numbered' = {}
    BY <2>1 DEF Numbered
  <2>. QED  BY <2>1, <2>2 DEF SequenceInv, Watermark
<1>4. CASE ConnectionLost \/ StopExit
  <2>1. ~Live' /\ UNCHANGED <<lastSeq, headSeq>>
    BY <1>4 DEF ConnectionLost, StopExit, Live
  <2>. QED  BY <2>1 DEF SequenceInv, Watermark
<1>5. CASE ServeCommand \/ RejectCommand
  <2>1. UNCHANGED <<headSeq, srvSeq, lastSeq>> /\ (Live' => Live)
    BY <1>5 DEF ServeCommand, RejectCommand, Live
  <2>2. SubscribedFrame.type \notin MarketTypes /\ ErrorFrame.type \notin MarketTypes
    BY DEF SubscribedFrame, ErrorFrame, MarketTypes
  <2>3. \/ chan' = chan \/ chan' = Append(chan, SubscribedFrame)
        \/ chan' = Append(chan, ErrorFrame)
    BY <1>5 DEF ServeCommand, RejectCommand
  <2>. QED  BY <2>1, <2>2, <2>3, SequenceQuiet, SequenceAnswer DEF Watermark
<1>6. ASSUME NEW t \in Tickers, SendSnapshot(t)
      PROVE  SequenceInv' /\ Watermark'
  <2>. DEFINE e == MarketFrame("orderbook_snapshot", t, srvSeq', ver[t])
  <2>1. /\ chan' = Append(chan, e) /\ srvSeq' = srvSeq + 1
        /\ UNCHANGED <<headSeq, lastSeq>> /\ (Live' => Live)
    BY <1>6 DEF SendSnapshot, Live
  <2>2. e.type \in MarketTypes /\ e.seq = srvSeq'
    BY DEF MarketFrame, MarketTypes
  <2>. HIDE DEF e
  <2>. QED  BY <2>1, <2>2, SequenceMarket DEF Watermark
<1>7. ASSUME NEW t \in Tickers, MarketMoves(t)
      PROVE  SequenceInv' /\ Watermark'
  <2>. DEFINE e == MarketFrame("orderbook_delta", t, srvSeq', ver'[t])
  <2>1. /\ \/ chan' = Append(chan, e) /\ srvSeq' = srvSeq + 1
           \/ UNCHANGED <<chan, srvSeq>>
        /\ UNCHANGED <<headSeq, lastSeq>> /\ (Live' => Live)
    BY <1>7 DEF MarketMoves, Live
  <2>2. e.type \in MarketTypes /\ e.seq = srvSeq'
    BY DEF MarketFrame, MarketTypes
  <2>. HIDE DEF e
  <2>. QED  BY <2>1, <2>2, SequenceMarket, SequenceQuiet DEF Watermark
<1>8. CASE HandleRaw \/ LoseFrame
  <2>1. SequenceInv' /\ headSeq <= headSeq' /\ headSeq \in Nat /\ headSeq' \in Nat
    BY <1>8, TakenFrame, TypeStep DEF TypeOK, Next, Faults
  <2>2. lastSeq' = lastSeq \/ lastSeq' = None \/ lastSeq' = headSeq'
    BY <1>8 DEF HandleRaw, HandleSubscribed, HandleError, HandleSnapshot, HandleDelta,
         HandleGap, LoseFrame, Taken
  <2>3. lastSeq \in Nat \cup {None}
    BY DEF TypeOK
  <2>. QED  BY <2>1, <2>2, <2>3 DEF Watermark
<1>. QED
  BY NextCases, <1>1, <1>2, <1>3, <1>4, <1>5, <1>6, <1>7, <1>8 DEF HandleRaw

LEMMA SequenceInit == Init => SequenceInv /\ Watermark
BY DEF Init, SequenceInv, Watermark, Live

\* On every connection the frames under way carry increasing sequence numbers,
\* above the collector's watermark (the check of _handle_raw relies on it).
THEOREM SequenceInvariant == Spec => [](SequenceInv /\ Watermark)
<1>1. TypeOK /\ StreamInv /\ (SequenceInv /\ Watermark) /\ [Next]_vars
        => (SequenceInv /\ Watermark)'
  BY SequenceStep
<1>. QED  BY <1>1, SequenceInit, TypeCorrect, StreamInvariant, PTL DEF Spec

-----------------------------------------------------------------------------
(***************************************************************************)
(* The opening of a connection, as long as discovery has not changed the   *)
(* markets it resolved first and the server has rejected nothing           *)
(***************************************************************************)
Undisturbed == rolls = 0 /\ rejects = 0

\* The subscribe command is on its way; nothing has come back yet.
Requested ==
    /\ cmds = <<Cmd("subscribe", InitActive)>>
    /\ chan = <<>> /\ srvSubs = {} /\ owed = {}
    /\ sid = None /\ lastSeq = None /\ snapshotted = {}

Subscribes == \E i \in 1 .. Len(cmds) : cmds[i].action = "subscribe"

\* Its answer is on its way, ahead of every frame of the subscription.
Answered ==
    /\ cmds = <<>>
    /\ chan # <<>> /\ Head(chan) = SubscribedFrame
    /\ \A i \in 2 .. Len(chan) : chan[i].type # "subscribed"
    /\ sid = None /\ lastSeq = None /\ snapshotted = {}

\* The collector has its sid, and a watermark from its first snapshot on.
Established ==
    /\ ~Subscribes
    /\ \A i \in 1 .. Len(chan) : chan[i].type # "subscribed"
    /\ sid # None
    /\ snapshotted # {} => lastSeq # None

Opening ==
    /\ rolls = 0 => active = InitActive
    /\ (Undisturbed /\ Live /\ InitActive # {}) =>
          /\ IF pc = "running" THEN subscribed = InitActive /\ recon = "sleep"
                               ELSE want = InitActive
          /\ Requested \/ Answered \/ Established

\* A sequence that gets one more element, or loses its first.
LEMMA AppendedOne ==
    ASSUME NEW T, NEW s \in Seq(T), NEW e
    PROVE  /\ Len(s) \in Nat /\ Len(Append(s, e)) = Len(s) + 1
           /\ \A i \in 1 .. Len(s) : Append(s, e)[i] = s[i]
           /\ Append(s, e)[Len(s) + 1] = e
OBVIOUS

LEMMA TakenOne ==
    ASSUME NEW T, NEW s \in Seq(T), s # <<>>
    PROVE  /\ Len(s) \in Nat /\ Len(s) > 0 /\ Len(Tail(s)) = Len(s) - 1
           /\ Head(s) = s[1]
           /\ \A i \in 1 .. Len(s) - 1 : Tail(s)[i] = s[i + 1]
OBVIOUS

\* Before the answer nothing is handled or lost; the answer establishes the
\* connection, and from then on every frame leaves it established.
LEMMA OpeningTake ==
    ASSUME TypeOK, Requested \/ Answered \/ Established, subscribed \subseteq Tickers,
           "subscribed" \notin LossyTypes, HandleRaw \/ LoseFrame
    PROVE  Established'
<1>. USE DEF hookVars, taskVars, loopVars, serverVars, historyVars, budgetVars
<1>1. /\ chan # <<>> /\ chan' = Tail(chan) /\ chan \in Seq(Frame) /\ cmds \in Seq(Command)
  BY DEF HandleRaw, HandleSubscribed, HandleError, HandleSnapshot, HandleDelta,
         HandleGap, LoseFrame, Receive, TypeOK
<1>2. /\ Len(chan) \in Nat /\ Len(chan) > 0 /\ Len(chan') = Len(chan) - 1
      /\ Head(chan) = chan[1]
      /\ \A i \in 1 .. Len(chan) - 1 : chan'[i] = chan[i + 1]
  BY <1>1, TakenOne
<1>3. (\A i \in 2 .. Len(chan) : chan[i].type # "subscribed")
        => \A i \in 1 .. Len(chan') : chan'[i].type # "subscribed"
  <2>1. \A i \in 1 .. Len(chan) - 1 : i + 1 \in 2 .. Len(chan)
    BY <1>2
  <2>. QED  BY <1>2, <2>1
<1>4. ~Requested
  BY <1>1 DEF Requested
<1>5. CASE Answered
  <2>1. Head(chan).type = "subscribed"
    BY <1>5 DEF Answered, SubscribedFrame
  <2>2. HandleSubscribed
    BY <2>1 DEF HandleRaw, HandleError, HandleSnapshot, HandleDelta, HandleGap,
         LoseFrame, Receive
  <2>3. sid' # None
    BY <1>1, <2>1, <2>2, HeadType, NoneAssumption DEF HandleSubscribed
  <2>4. ~Subscribes'
    BY <1>5, <2>2 DEF Answered, HandleSubscribed, Subscribes
  <2>. QED  BY <1>3, <1>5, <2>2, <2>3, <2>4 DEF Answered, Established, HandleSubscribed
<1>6. CASE Established
  <2>1. \A i \in 1 .. Len(chan) : chan[i].type # "subscribed"
    BY <1>6 DEF Established
  <2>2. \A i \in 1 .. Len(chan') : chan'[i].type # "subscribed"
    BY <1>2, <1>3, <2>1
  <2>3. Head(chan).type # "subscribed"
    BY <1>2, <2>1
  <2>4. sid' = sid /\ sid # None
    BY <1>6, <2>3 DEF Established, HandleRaw, HandleSubscribed, HandleError,
         HandleSnapshot, HandleDelta, HandleGap, LoseFrame, Receive
  <2>5. snapshotted' # {} => lastSeq' # None
    <3>1. CASE HandleSnapshot \/ HandleDelta \/ HandleGap
      <4>1. Head(chan).seq \in Nat
        BY <3>1, HeadType DEF HandleSnapshot, HandleDelta, HandleGap, Receive, MarketTypes
      <4>. QED  BY <3>1, <4>1, NoneAssumption DEF HandleSnapshot, HandleDelta, HandleGap
    <3>2. CASE HandleError \/ LoseFrame
      BY <1>6, <3>2 DEF HandleError, LoseFrame, Established
    <3>. QED  BY <2>3, <3>1, <3>2 DEF HandleRaw, HandleSubscribed, Receive
  <2>6. ~Subscribes'
    <3>1. CASE cmds' = cmds
      BY <1>6, <3>1 DEF Established, Subscribes
    <3>2. CASE cmds' # cmds
      <4>. DEFINE c == Cmd("get_snapshot", subscribed)
      <4>1. cmds' = Append(cmds, c)
        BY <3>2 DEF HandleRaw, HandleSubscribed, HandleError, HandleSnapshot, HandleDelta,
             HandleGap, LoseFrame, UpdateCmds
      <4>2. c.action = "get_snapshot"
        BY DEF Cmd
      <4>. HIDE DEF c
      <4>3. /\ Len(cmds') = Len(cmds) + 1 /\ cmds'[Len(cmds) + 1] = c /\ Len(cmds) \in Nat
            /\ \A i \in 1 .. Len(cmds) : cmds'[i] = cmds[i]
        BY <1>1, <4>1, AppendedOne
      <4>. QED  BY <1>6, <4>2, <4>3 DEF Established, Subscribes
    <3>. QED  BY <3>1, <3>2
  <2>. QED  BY <2>2, <2>4, <2>5, <2>6 DEF Established
<1>. QED  BY <1>4, <1>5, <1>6

\* The server sends a market frame.
LEMMA OpeningSend ==
    ASSUME TypeOK, Requested \/ Answered \/ Established, NEW t \in Tickers,
           SendSnapshot(t) \/ MarketMoves(t)
    PROVE  Requested' \/ Answered' \/ Established'
<1>. USE DEF hookVars, taskVars, loopVars, serverVars, historyVars, budgetVars
<1>1. /\ UNCHANGED <<sid, lastSeq, snapshotted, cmds, srvSubs>> /\ chan \in Seq(Frame)
  BY DEF SendSnapshot, MarketMoves, TypeOK
<1>2. CASE Requested
  BY <1>2 DEF Requested, SendSnapshot, MarketMoves
<1>3. PICK type \in MarketTypes :
        chan' = chan \/ chan' = Append(chan, MarketFrame(type, t, srvSeq', ver'[t]))
  BY DEF SendSnapshot, MarketMoves, MarketTypes
<1>. DEFINE e == MarketFrame(type, t, srvSeq', ver'[t])
<1>4. e.type # "subscribed"
  BY <1>3 DEF MarketFrame, MarketTypes
<1>. HIDE DEF e
<1>5. CASE chan' = chan /\ ~Requested
  BY <1>1, <1>5 DEF Answered, Established, Subscribes
<1>6. CASE chan' = Append(chan, e) /\ ~Requested
  <2>1. /\ Len(chan') = Len(chan) + 1 /\ chan'[Len(chan) + 1] = e /\ Len(chan) \in Nat
        /\ \A i \in 1 .. Len(chan) : chan'[i] = chan[i]
    BY <1>1, <1>6, AppendedOne
  <2>2. CASE Answered
    <3>1. chan' # <<>> /\ Head(chan') = Head(chan)
      BY <1>1, <1>6, <2>1, <2>2 DEF Answered
    <3>2. \A i \in 2 .. Len(chan') : chan'[i].type # "subscribed"
      <4>1. \A i \in 2 .. Len(chan) : i \in 1 .. Len(chan)
        BY <2>1
      <4>. QED  BY <1>4, <2>1, <2>2, <4>1 DEF Answered
    <3>. QED  BY <1>1, <2>2, <3>1, <3>2 DEF Answered
  <2>3. CASE Established
    <3>1. \A i \in 1 .. Len(chan') : chan'[i].type # "subscribed"
      BY <1>4, <2>1, <2>3 DEF Established
    <3>. QED  BY <1>1, <2>3, <3>1 DEF Established, Subscribes
  <2>. QED  BY <1>6, <2>2, <2>3
<1>. QED  BY <1>2, <1>3, <1>5, <1>6 DEF e

\* The server carries out a command.
LEMMA OpeningServe ==
    ASSUME TypeOK, Requested \/ Answered \/ Established, ServeCommand
    PROVE  Answered' \/ Established'
<1>. USE DEF hookVars, taskVars, loopVars, serverVars, historyVars, budgetVars
<1>1. /\ UNCHANGED <<sid, lastSeq, snapshotted>> /\ cmds # <<>> /\ cmds' = Tail(cmds)
      /\ cmds \in Seq(Command)
  BY DEF ServeCommand, TypeOK
<1>2. CASE Requested
  <2>1. Head(cmds).action = "subscribe" /\ cmds' = <<>>
    BY <1>1, <1>2 DEF Requested, Cmd
  <2>2. chan' = <<SubscribedFrame>>
    BY <1>2, <2>1 DEF Requested, ServeCommand
  <2>3. Answered'
    BY <1>1, <1>2, <2>1, <2>2 DEF Requested, Answered
  <2>. QED  BY <2>3
<1>3. ~Answered
  BY <1>1 DEF Answered
<1>4. CASE Established
  <2>1. /\ Len(cmds) \in Nat /\ Len(cmds) > 0 /\ Len(cmds') = Len(cmds) - 1
        /\ Head(cmds) = cmds[1]
        /\ \A i \in 1 .. Len(cmds) - 1 : cmds'[i] = cmds[i + 1]
    BY <1>1, TakenOne
  <2>2. \A i \in 1 .. Len(cmds) : cmds[i].action # "subscribe"
    BY <1>4 DEF Established, Subscribes
  <2>3. Head(cmds).action # "subscribe"
    BY <2>1, <2>2
  <2>4. ~Subscribes'
    <3>1. \A i \in 1 .. Len(cmds') : i + 1 \in 1 .. Len(cmds) /\ cmds'[i] = cmds[i + 1]
      BY <2>1
    <3>. QED  BY <2>2, <3>1 DEF Subscribes
  <2>5. chan' = chan
    BY <2>3 DEF ServeCommand
  <2>. QED  BY <1>1, <1>4, <2>4, <2>5 DEF Established
<1>. QED  BY <1>2, <1>3, <1>4

LEMMA OpeningStep ==
    ASSUME TypeOK, StreamInv, Agreement, Opening, "subscribed" \notin LossyTypes, [Next]_vars
    PROVE  Opening'
<1>. USE DEF hookVars, taskVars, loopVars, serverVars, historyVars, budgetVars
<1>1. CASE UNCHANGED vars \/ Finished \/ ReconIdle \/ Stop \/ ResyncSent
  <2>1. UNCHANGED <<cmds, chan, srvSubs, owed, sid, lastSeq, snapshotted, subscribed,
                    recon, want, pc, active, rolls, rejects>>
    BY <1>1 DEF vars, Finished, ReconIdle, Stop, ResyncSent
  <2>2. Requested' = Requested /\ Answered' = Answered /\ Established' = Established
    BY <2>1 DEF Requested, Answered, Established, Subscribes
  <2>. QED  BY <2>1, <2>2 DEF Opening, Undisturbed, Live
<1>2. CASE LoopTop \/ BackoffDone \/ ConnectionLost \/ StopExit
  <2>1. ~Live' /\ UNCHANGED <<active, rolls>>
    BY <1>2 DEF LoopTop, BackoffDone, ConnectionLost, StopExit, Live
  <2>. QED  BY <2>1 DEF Opening
<1>3. CASE Rollover \/ RejectCommand
  <2>1. (rolls' # 0 \/ UNCHANGED <<active, rolls>>) /\ ~Undisturbed'
    BY <1>3 DEF Rollover, RejectCommand, Undisturbed, TypeOK
  <2>. QED  BY <2>1 DEF Opening
<1>4. CASE ConnectOK
  <2>1. /\ UNCHANGED <<active, rolls, chan, srvSubs, owed, recon>>
        /\ chan = <<>> /\ cmds = <<>> /\ srvSubs = {} /\ owed = {}
        /\ sid' = None /\ lastSeq' = None /\ snapshotted' = {}
    BY <1>4 DEF ConnectOK, OnConnectReset, StreamInv, NoStream, Live
  <2>2. ASSUME Undisturbed', InitActive # {}
        PROVE  pc' = "subscribe" /\ want' = InitActive /\ Requested'
    <3>1. active = InitActive
      BY <2>1, <2>2 DEF Undisturbed, Opening
    <3>2. cmds' = Append(cmds, Cmd("subscribe", InitActive)) /\ pc' = "subscribe"
          /\ want' = InitActive
      BY <1>4, <2>2, <3>1 DEF ConnectOK
    <3>3. cmds' = <<Cmd("subscribe", InitActive)>>
      BY <2>1, <3>2
    <3>. QED  BY <2>1, <3>2, <3>3 DEF Requested
  <2>. QED  BY <2>1, <2>2 DEF Opening
<1>5. CASE SubscribeSent
  <2>1. /\ pc = "subscribe" /\ pc' = "running" /\ subscribed' = want /\ recon' = "sleep"
        /\ UNCHANGED <<cmds, chan, srvSubs, owed, sid, lastSeq, snapshotted, active,
                       rolls, rejects>>
    BY <1>5 DEF SubscribeSent, Agreement
  <2>2. Requested' = Requested /\ Answered' = Answered /\ Established' = Established
    BY <2>1 DEF Requested, Answered, Established, Subscribes
  <2>. QED  BY <2>1, <2>2 DEF Opening, Undisturbed, Live
<1>6. CASE ReconSubscribe \/ ReconUpdate \/ ReconDelete \/ ReconSent
  <2>1. /\ pc = "running" /\ UNCHANGED <<pc, active, rolls, rejects>>
        /\ \/ subscribed = {} \/ active # subscribed \/ recon # "sleep"
    BY <1>6 DEF ReconSubscribe, ReconUpdate, ReconDelete, ReconSent, ReconAwake
  <2>2. ~(Undisturbed /\ InitActive # {})
    BY <2>1 DEF Opening, Undisturbed, Live
  <2>. QED  BY <2>1, <2>2 DEF Opening, Undisturbed
<1>7. CASE \/ ServeCommand \/ HandleRaw \/ LoseFrame
           \/ \E t \in Tickers : SendSnapshot(t) \/ MarketMoves(t)
  <2>1. UNCHANGED <<pc, subscribed, recon, want, active, rolls, rejects>>
    BY <1>7 DEF ServeCommand, HandleRaw, HandleSubscribed, HandleError, HandleSnapshot,
         HandleDelta, HandleGap, LoseFrame, SendSnapshot, MarketMoves
  <2>2. subscribed \subseteq Tickers
    BY DEF TypeOK
  <2>3. (Requested \/ Answered \/ Established) => (Requested' \/ Answered' \/ Established')
    BY <1>7, <2>2, OpeningServe, OpeningTake, OpeningSend
  <2>. QED  BY <2>1, <2>3 DEF Opening, Undisturbed, Live
<1>. QED
  BY NextCases, <1>1, <1>2, <1>3, <1>4, <1>5, <1>6, <1>7 DEF HandleRaw

LEMMA OpeningInit == Init => Opening
BY DEF Init, Opening, Live

\* Every connection opens the same way: the subscribe command, its answer, and
\* only then the frames of the subscription, a snapshot before any delta is
\* mirrored.
THEOREM OpeningInvariant ==
    ASSUME "subscribed" \notin LossyTypes PROVE Spec => []Opening
<1>1. (TypeOK /\ StreamInv /\ Agreement) /\ Opening /\ [Next]_vars => Opening'
  BY OpeningStep
<1>. QED
  BY <1>1, OpeningInit, TypeCorrect, StreamInvariant, AgreementInvariant, PTL DEF Spec

-----------------------------------------------------------------------------
(***************************************************************************)
(* A loss does not go unnoticed                                            *)
(***************************************************************************)

\* A loss in the only market that is mirrored will be repaired or noticed.
Notice ==
    (Undisturbed /\ Live) =>
        \A t \in Damaged \cap InitActive : snapshotted = {t} => NoticeComing(t)

\* What is asked for stays asked for while commands are only added.
LEMMA AskedStays ==
    ASSUME TypeOK, NEW t, AskedFor(t),
           NEW c, cmds' = cmds \/ cmds' = Append(cmds, c)
    PROVE  AskedFor(t)'
<1>1. cmds \in Seq(Command)
  BY DEF TypeOK
<1>2. CASE cmds' = cmds
  BY <1>2 DEF AskedFor
<1>3. CASE cmds' = Append(cmds, c)
  <2>1. /\ Len(cmds') = Len(cmds) + 1 /\ Len(cmds) \in Nat
        /\ \A i \in 1 .. Len(cmds) : cmds'[i] = cmds[i]
    BY <1>1, <1>3, AppendedOne
  <2>2. PICK i \in 1 .. Len(cmds) : cmds[i].action = "get_snapshot" /\ t \in cmds[i].tickers
    BY DEF AskedFor
  <2>3. i \in 1 .. Len(cmds') /\ cmds'[i] = cmds[i]
    BY <2>1
  <2>. QED  BY <2>2, <2>3 DEF AskedFor
<1>. QED  BY <1>2, <1>3

\* A resync asks for the snapshot of a market that is believed subscribed.
LEMMA ResyncAsks ==
    ASSUME TypeOK, HandleGap, NEW t \in subscribed, sid # None
    PROVE  AskedFor(t)'
<1>. DEFINE c == Cmd("get_snapshot", subscribed)
<1>1. cmds' = Append(cmds, c) /\ cmds \in Seq(Command)
  BY DEF HandleGap, UpdateCmds, TypeOK
<1>2. c.action = "get_snapshot" /\ t \in c.tickers
  BY DEF Cmd
<1>. HIDE DEF c
<1>3. Len(cmds') = Len(cmds) + 1 /\ Len(cmds) \in Nat /\ cmds'[Len(cmds) + 1] = c
  BY <1>1, AppendedOne
<1>4. Len(cmds) + 1 \in 1 .. Len(cmds')
  BY <1>3
<1>. QED  BY <1>2, <1>3, <1>4 DEF AskedFor

\* A snapshot that is under way stays under way while frames are added, and
\* while other frames are taken.
LEMMA SnapshotStays ==
    ASSUME TypeOK, NEW t \in Tickers,
           \E i \in InFlight(t) : chan[i].type = "orderbook_snapshot",
           NEW e, \/ chan' = chan \/ chan' = Append(chan, e)
                  \/ /\ chan # <<>> /\ chan' = Tail(chan)
                     /\ Head(chan).type # "orderbook_snapshot"
    PROVE  \E i \in InFlight(t)' : chan'[i].type = "orderbook_snapshot"
<1>1. PICK i \in InFlight(t) : chan[i].type = "orderbook_snapshot"
  OBVIOUS
<1>2. CASE chan' = chan
  BY <1>1, <1>2 DEF InFlight
<1>3. CASE chan' = Append(chan, e)
  BY <1>1, <1>3, InFlightAppend
<1>4. CASE chan # <<>> /\ chan' = Tail(chan) /\ Head(chan).type # "orderbook_snapshot"
  <2>1. i # 1 /\ i \in Nat
    BY <1>1, <1>4, InFlightTail, InFlightType
  <2>2. i - 1 \in InFlight(t)'
    BY <1>4, <2>1, InFlightTail
  <2>3. chan'[i - 1] = chan[(i - 1) + 1]
    BY <1>4, <2>2, InFlightTail
  <2>4. (i - 1) + 1 = i
    BY <2>1
  <2>. QED  BY <1>1, <2>2, <2>3, <2>4
<1>. QED  BY <1>2, <1>3, <1>4

\* The receive task takes a frame, or it is lost.  A lost frame leaves a gap, a
\* delta applied shows there was none, a delta dropped asks for the snapshot.
LEMMA NoticeTake ==
    ASSUME TypeOK, StreamInv, SequenceInv, Watermark, Opening, Notice, Undisturbed,
           HandleRaw \/ LoseFrame, NEW t \in Tickers,
           t \in Damaged' \cap InitActive, snapshotted' = {t}
    PROVE  NoticeComing(t)'
<1>. USE DEF hookVars, taskVars, loopVars, serverVars, historyVars, budgetVars
<1>1. /\ Live /\ chan # <<>> /\ chan' = Tail(chan) /\ headSeq <= headSeq'
      /\ Head(chan).type \in MarketTypes => headSeq < headSeq'
      /\ chan[1] = Head(chan)
  <2>1. chan # <<>> => chan[1] = Head(chan)
    BY InFlightTail DEF TypeOK
  <2>. QED  BY <2>1, TakenFrame
<1>2. /\ srvSubs' = srvSubs /\ owed' = owed
      /\ headSeq \in Nat /\ headSeq' \in Nat /\ lastSeq \in Nat \cup {None}
  BY TypeStep DEF HandleRaw, HandleSubscribed, HandleError, HandleSnapshot, HandleDelta,
       HandleGap, LoseFrame, TypeOK, Next, Faults
<1>3. ~HandleSnapshot
  <2>1. ASSUME HandleSnapshot PROVE FALSE
    <3>1. Head(chan).ticker = t /\ t \notin missed'
      BY <2>1 DEF HandleSnapshot
    <3>. QED  BY <3>1 DEF Damaged
  <2>. QED  BY <2>1
<1>4. snapshotted = {t}
  BY <1>3 DEF HandleRaw, HandleSubscribed, HandleError, HandleDelta, HandleGap, LoseFrame
<1>5. InitActive # {} /\ Established
  BY <1>1, <1>4 DEF Opening, Requested, Answered
<1>6. lastSeq \in Nat /\ sid # None /\ lastSeq <= headSeq
  BY <1>2, <1>4, <1>5 DEF Established, Watermark
<1>7. ~HandleSubscribed
  <2>1. ASSUME HandleSubscribed PROVE FALSE
    <3>1. Len(chan) \in Nat /\ Len(chan) > 0
      BY <1>1, TakenOne DEF TypeOK
    <3>2. 1 \in 1 .. Len(chan)
      BY <3>1
    <3>. QED  BY <1>1, <1>5, <2>1, <3>2 DEF Established, HandleSubscribed, Receive
  <2>. QED  BY <2>1
<1>8. ASSUME UNCHANGED <<missed, cmds, lastSeq, headSeq>>,
             Head(chan).type # "orderbook_snapshot"
      PROVE  NoticeComing(t)'
  <2>1. NoticeComing(t)
    BY <1>1, <1>2, <1>4, <1>8 DEF Notice, Damaged
  <2>2. CASE AskedFor(t) \/ t \in owed \/ GapAhead
    BY <1>2, <1>8, <2>2, AskedStays DEF NoticeComing, SnapshotComing, GapAhead
  <2>3. CASE \E i \in InFlight(t) : chan[i].type = "orderbook_snapshot"
    BY <1>1, <1>8, <2>3, SnapshotStays DEF NoticeComing, SnapshotComing
  <2>. QED  BY <2>1, <2>2, <2>3 DEF NoticeComing, SnapshotComing
<1>9. CASE HandleError
  BY <1>8, <1>9 DEF HandleError, Receive
<1>10. CASE LoseFrame /\ Head(chan).type \notin MarketTypes
  BY <1>8, <1>10 DEF LoseFrame, MarketTypes
<1>11. CASE LoseFrame /\ Head(chan).type \in MarketTypes
  <2>1. lastSeq' = lastSeq /\ lastSeq < headSeq'
    BY <1>1, <1>2, <1>6, <1>11 DEF LoseFrame
  <2>2. lastSeq' # None /\ headSeq' # lastSeq'
    BY <1>2, <1>6, <2>1, NoneAssumption
  <2>. QED  BY <2>2 DEF NoticeComing, GapAhead
<1>12. CASE HandleDelta
  <2>1. /\ missed' = missed /\ cmds' = cmds /\ Head(chan).type = "orderbook_delta"
        /\ headSeq' = Head(chan).seq /\ Head(chan).seq = lastSeq + 1
    BY <1>6, <1>12, NoneAssumption DEF HandleDelta, Receive, Gap, Taken
  <2>2. ~GapAhead
    BY <1>1, <1>2, <1>6, <2>1 DEF GapAhead, MarketTypes
  <2>3. NoticeComing(t)
    BY <1>1, <1>2, <1>4, <2>1 DEF Notice, Damaged
  <2>4. CASE AskedFor(t) \/ t \in owed
    BY <1>2, <2>1, <2>4, AskedStays DEF NoticeComing, SnapshotComing
  <2>5. CASE \E i \in InFlight(t) : chan[i].type = "orderbook_snapshot"
    BY <1>1, <2>1, <2>5, SnapshotStays DEF NoticeComing, SnapshotComing
  <2>. QED  BY <2>2, <2>3, <2>4, <2>5 DEF NoticeComing, SnapshotComing
<1>13. CASE HandleGap
  <2>1. subscribed = InitActive
    BY <1>1, <1>5, <1>13 DEF Opening, HandleGap, Receive
  <2>. QED  BY <1>6, <1>13, <2>1, ResyncAsks DEF NoticeComing, SnapshotComing
<1>. QED  BY <1>3, <1>7, <1>9, <1>10, <1>11, <1>12, <1>13 DEF HandleRaw

\* The server carries out a command: a snapshot asked for becomes one owed.
LEMMA NoticeServe ==
    ASSUME TypeOK, Notice, Undisturbed, Live, ServeCommand, NEW t \in Tickers,
           t \in Damaged' \cap InitActive, snapshotted' = {t}
    PROVE  NoticeComing(t)'
<1>. USE DEF hookVars, taskVars, loopVars, serverVars, historyVars, budgetVars
<1>1. /\ cmds # <<>> /\ cmds' = Tail(cmds) /\ cmds \in Seq(Command)
      /\ chan' = chan \/ chan' = Append(chan, SubscribedFrame)
      /\ UNCHANGED <<missed, snapshotted, lastSeq, headSeq>>
  BY DEF ServeCommand, TypeOK
<1>. DEFINE c == Head(cmds)
<1>2. CASE t \notin srvSubs
  <2>1. t \in srvSubs'
    BY DEF Damaged
  <2>2. t \in owed'
    BY <1>2, <2>1 DEF ServeCommand
  <2>. QED  BY <2>2 DEF NoticeComing, SnapshotComing
<1>3. CASE t \in srvSubs
  <2>1. NoticeComing(t)
    BY <1>1, <1>3 DEF Notice, Damaged
  <2>2. CASE t \in owed
    <3>1. t \in srvSubs'
      BY DEF Damaged
    <3>2. t \in owed'
      BY <2>2, <3>1 DEF ServeCommand
    <3>. QED  BY <3>2 DEF NoticeComing, SnapshotComing
  <2>3. CASE GapAhead
    BY <1>1, <2>3 DEF NoticeComing, GapAhead
  <2>4. CASE \E i \in InFlight(t) : chan[i].type = "orderbook_snapshot"
    BY <1>1, <2>4, SnapshotStays DEF NoticeComing, SnapshotComing
  <2>5. CASE AskedFor(t)
    <3>1. PICK i \in 1 .. Len(cmds) :
                 cmds[i].action = "get_snapshot" /\ t \in cmds[i].tickers
      BY <2>5 DEF AskedFor
    <3>2. /\ Len(cmds) \in Nat /\ Len(cmds) > 0 /\ Len(cmds') = Len(cmds) - 1
          /\ c = cmds[1]
          /\ \A j \in 1 .. Len(cmds) - 1 : cmds'[j] = cmds[j + 1]
      BY <1>1, TakenOne
    <3>3. CASE i = 1
      <4>1. t \in owed'
        BY <1>3, <3>1, <3>2, <3>3 DEF ServeCommand
      <4>. QED  BY <4>1 DEF NoticeComing, SnapshotComing
    <3>4. CASE i # 1
      <4>1. i - 1 \in 1 .. Len(cmds') /\ cmds'[i - 1] = cmds[i]
        BY <3>2, <3>4
      <4>2. AskedFor(t)'
        BY <3>1, <4>1 DEF AskedFor
      <4>. QED  BY <4>2 DEF NoticeComing, SnapshotComing
    <3>. QED  BY <3>3, <3>4
  <2>. QED  BY <2>1, <2>2, <2>3, <2>4, <2>5 DEF NoticeComing, SnapshotComing
<1>. QED  BY <1>2, <1>3

\* The server sends a frame: a snapshot owed becomes one under way.
LEMMA NoticeSend ==
    ASSUME TypeOK, Notice, Undisturbed, Live, NEW u \in Tickers,
           SendSnapshot(u) \/ MarketMoves(u), NEW t \in Tickers,
           t \in Damaged' \cap InitActive, snapshotted' = {t}
    PROVE  NoticeComing(t)'
<1>. USE DEF hookVars, taskVars, loopVars, serverVars, historyVars, budgetVars
<1>1. UNCHANGED <<missed, snapshotted, srvSubs, lastSeq, headSeq, cmds>>
  BY DEF SendSnapshot, MarketMoves
<1>2. NoticeComing(t)
  BY <1>1 DEF Notice, Damaged
<1>3. CASE AskedFor(t) \/ GapAhead
  BY <1>1, <1>3, AskedStays DEF NoticeComing, SnapshotComing, GapAhead
<1>4. CASE \E i \in InFlight(t) : chan[i].type = "orderbook_snapshot"
  <2>1. \E e : chan' = chan \/ chan' = Append(chan, e)
    BY DEF SendSnapshot, MarketMoves
  <2>. QED  BY <1>4, <2>1, SnapshotStays DEF NoticeComing, SnapshotComing
<1>5. CASE t \in owed
  <2>1. CASE t \in owed'
    BY <2>1 DEF NoticeComing, SnapshotComing
  <2>2. CASE t \notin owed'
    <3>. DEFINE e == MarketFrame("orderbook_snapshot", t, srvSeq', ver[t])
    <3>1. chan' = Append(chan, e)
      BY <1>5, <2>2 DEF SendSnapshot, MarketMoves
    <3>2. OfMarket(e, t) /\ e.type = "orderbook_snapshot"
      BY DEF OfMarket, MarketFrame, MarketTypes
    <3>. HIDE DEF e
    <3>3. Len(chan) + 1 \in InFlight(t)' /\ chan'[Len(chan) + 1] = e
      BY <3>1, <3>2, InFlightAppend
    <3>. QED  BY <3>2, <3>3 DEF NoticeComing, SnapshotComing
  <2>. QED  BY <2>1, <2>2
<1>. QED  BY <1>2, <1>3, <1>4, <1>5 DEF NoticeComing, SnapshotComing

LEMMA NoticeStep ==
    ASSUME TypeOK, StreamInv, SequenceInv, Watermark, Opening, Notice, [Next]_vars
    PROVE  Notice'
<1>. USE DEF hookVars, taskVars, loopVars, serverVars, historyVars, budgetVars
<1>. SUFFICES ASSUME Undisturbed', Live', NEW t \in Tickers,
                     t \in Damaged' \cap InitActive, snapshotted' = {t}
              PROVE  NoticeComing(t)'
  BY EnvironmentAssumption DEF Notice
<1>1. CASE UNCHANGED vars \/ Finished \/ ReconIdle
  <2>1. UNCHANGED vars
    BY <1>1 DEF Finished, ReconIdle
  <2>. QED
    BY <2>1 DEF vars, Notice, Undisturbed, Live, Damaged, NoticeComing, SnapshotComing,
         AskedFor, InFlight, GapAhead
<1>2. CASE \/ Stop \/ SubscribeSent \/ ResyncSent \/ ReconSubscribe \/ ReconUpdate
           \/ ReconDelete \/ ReconSent
  <2>1. /\ UNCHANGED <<missed, snapshotted, srvSubs, owed, chan, lastSeq, headSeq,
                       rolls, rejects>>
        /\ Live' => Live
    BY <1>2 DEF Stop, SubscribeSent, ResyncSent, ReconSubscribe, ReconUpdate,
         ReconDelete, ReconSent, ReconAwake, Live
  <2>2. \E c : cmds' = cmds \/ cmds' = Append(cmds, c)
    BY <1>2 DEF Stop, SubscribeSent, ResyncSent, ReconSubscribe, ReconUpdate,
         ReconDelete, ReconSent, UpdateCmds
  <2>3. NoticeComing(t)
    BY <2>1 DEF Notice, Undisturbed, Damaged
  <2>4. AskedFor(t) => AskedFor(t)'
    BY <2>2, AskedStays
  <2>5. InFlight(t)' = InFlight(t)
    BY <2>1 DEF InFlight
  <2>. QED  BY <2>1, <2>3, <2>4, <2>5 DEF NoticeComing, SnapshotComing, GapAhead
<1>3. CASE LoopTop \/ BackoffDone \/ ConnectionLost \/ StopExit
  BY <1>3 DEF LoopTop, BackoffDone, ConnectionLost, StopExit, Live
<1>4. CASE Rollover \/ RejectCommand
  BY <1>4 DEF Rollover, RejectCommand, Undisturbed, TypeOK
<1>5. CASE ConnectOK
  BY <1>5 DEF ConnectOK, OnConnectReset
<1>6. CASE ServeCommand \/ \E u \in Tickers : SendSnapshot(u) \/ MarketMoves(u)
  <2>1. Undisturbed /\ Live
    BY <1>6 DEF ServeCommand, SendSnapshot, MarketMoves, Undisturbed, Live
  <2>. QED  BY <1>6, <2>1, NoticeServe, NoticeSend
<1>7. CASE HandleRaw \/ LoseFrame
  <2>1. Undisturbed
    BY <1>7 DEF HandleRaw, HandleSubscribed, HandleError, HandleSnapshot, HandleDelta,
         HandleGap, LoseFrame, Undisturbed
  <2>. QED  BY <1>7, <2>1, NoticeTake
<1>. QED
  BY NextCases, <1>1, <1>2, <1>3, <1>4, <1>5, <1>6, <1>7 DEF HandleRaw

\* A loss in the only market this connection has a book for, subscribed at
\* connect, does not go unnoticed: the next delta shows the gap, or a snapshot
\* is on its way - unless the answer to the subscribe command can itself be
\* lost, for without a sid _send_update sends nothing.
THEOREM LossesAreNoticed ==
    ASSUME "subscribed" \notin LossyTypes PROVE Spec => []LossIsNoticed
<1>1. Init => Notice
  BY DEF Init, Notice, Live
<1>2. (TypeOK /\ StreamInv /\ (SequenceInv /\ Watermark) /\ Opening) /\ Notice /\ [Next]_vars
        => Notice'
  BY NoticeStep
<1>3. Notice => LossIsNoticed
  BY DEF Notice, LossIsNoticed, Undisturbed, Live
<1>. QED
  BY <1>1, <1>2, <1>3, TypeCorrect, StreamInvariant, SequenceInvariant, OpeningInvariant,
     PTL DEF Spec

=============================================================================
