----------------------------- MODULE ReaderProofs ------------------------------
(***************************************************************************)
(* Theorems about the commands of a reader, for any number of commands,    *)
(* contents, requests served at a time and faults, and about the media a   *)
(* reader is served, for any set of contents, rows and ranges.             *)
(***************************************************************************)
EXTENDS ReaderCommands, ReaderResources, TLAPS

(***************************************************************************)
(* Commands.                                                               *)
(***************************************************************************)

\* A request that has gone beyond "idle" serves a command whose receipt exists,
\* and brings one of the final outcomes when it is finished.
Serving ==
    \A h \in Handlers :
        /\ calls[h].step # "idle" => calls[h].command \in Commands /\ Known(calls[h].command)
        /\ calls[h].step = "finished" => calls[h].outcome \in Terminal

\* The claim is exclusive: whoever holds it took the receipt out of "pending",
\* holds it alone, and has not invoked the effect yet.
Claimed ==
    /\ \A h \in Handlers : calls[h].step = "claimed" =>
           /\ receipts[calls[h].command].state # "pending"
           /\ invoked[calls[h].command] = 0
    /\ \A g, h \in Handlers :
           calls[g].step = "claimed" /\ calls[h].step = "claimed"
               /\ calls[g].command = calls[h].command => g = h

\* An effect that was invoked was claimed before, and once.
Invoked ==
    \A c \in Commands : invoked[c] # 0 =>
        Known(c) /\ receipts[c].state # "pending" /\ invoked[c] = 1

Inv == TypeOK /\ Serving /\ Claimed /\ Invoked

LEMMA InitInv == Init => Inv
  BY CommandConstants DEF Init, Inv, TypeOK, Serving, Claimed, Invoked, Calls, Idle, Known

\* What a step may do to the receipts without disturbing the claims: a new receipt
\* for a command that had none, any other rows unchanged.
LEMMA NewReceipt ==
  ASSUME Inv, NEW c \in Commands, ~Known(c), NEW receipt \in Receipts,
         receipts' = [receipts EXCEPT ![c] = receipt], aggregate' \in Nat,
         UNCHANGED <<calls, invoked>>
  PROVE  Inv'
  <1> USE DEF Inv, TypeOK, Known
  <1>1. TypeOK'  OBVIOUS
  <1>2. \A d \in Commands : Known(d) => receipts'[d] = receipts[d]  OBVIOUS
  <1>3. \A d \in Commands : Known(d) => Known(d)'  BY <1>2
  <1>4. Serving'  BY <1>3 DEF Serving
  <1>5. Claimed'  BY <1>2 DEF Claimed, Serving
  <1>6. Invoked'  BY <1>2, <1>3 DEF Invoked
  <1> QED  BY <1>1, <1>4, <1>5, <1>6

LEMMA LocalStep ==
  ASSUME Inv, NEW c \in Commands, NEW w \in WritesOf[c], ApplyLocal(c, w)
  PROVE  Inv'
  <1>1. /\ ~Known(c)
        /\ \E changed \in BOOLEAN : Succeed(c, w, changed)
    BY DEF ApplyLocal, ApplyTag, AppendCaptureNote, UpdateCuratedNote, ApplyReading, New
  <1>2. PICK changed \in BOOLEAN : Succeed(c, w, changed)  BY <1>1
  <1>3. aggregate' \in Nat  BY <1>2 DEF Succeed, Inv, TypeOK
  <1>4. Receipt(w, "succeeded", aggregate') \in Receipts
    BY <1>3 DEF Receipt, Receipts, Writes, Terminal
  <1>5. UNCHANGED <<calls, invoked>>  BY <1>2 DEF Succeed, history
  <1> QED  BY <1>1, <1>2, <1>3, <1>4, <1>5, NewReceipt DEF Succeed

LEMMA ReserveStep ==
  ASSUME Inv, NEW h \in Handlers, NEW c \in Commands, NEW w \in WritesOf[c], Reserve(h, c, w)
  PROVE  Inv'
  <1> USE DEF Inv, TypeOK, Known
  <1> DEFINE receipt == Receipt(w, "pending", aggregate)
  <1>1. /\ ~Known(c) /\ calls[h] = Idle
        /\ receipts' = [receipts EXCEPT ![c] = receipt]
        /\ calls' = [calls EXCEPT ![h] = [command |-> c, step |-> "reserved", outcome |-> "none"]]
        /\ UNCHANGED <<aggregate, invoked>>
    BY DEF Reserve, New, Serve, stores, history
  <1>2. receipt \in Receipts  BY DEF Receipt, Receipts, Writes, Terminal
  <1>3. receipts' \in [Commands -> Receipts \cup {NoReceipt}]  BY <1>1, <1>2
  <1>4. [command |-> c, step |-> "reserved", outcome |-> "none"] \in Calls  BY DEF Calls
  <1>5. TypeOK'  BY <1>1, <1>3, <1>4
  <1>6. \A d \in Commands : Known(d) => receipts'[d] = receipts[d]  BY <1>1
  <1>7. Known(c)'  BY <1>1, <1>2, CommandConstants
  <1>8. Serving'  BY <1>1, <1>6, <1>7 DEF Serving
  <1>9. \A g \in Handlers : g # h => calls'[g] = calls[g]  BY <1>1
  <1>10. calls'[h].step = "reserved"  BY <1>1
  <1>11. Claimed'  BY <1>1, <1>6, <1>9, <1>10 DEF Claimed, Serving
  <1>12. Invoked'  BY <1>1, <1>6 DEF Invoked
  <1> QED  BY <1>5, <1>8, <1>11, <1>12

\* A request that takes up, drops or finishes its command without claiming it
\* leaves the claims of the others alone.
LEMMA CallOnly ==
  ASSUME Inv, NEW h \in Handlers, NEW call \in Calls, calls' = [calls EXCEPT ![h] = call],
         call.step # "claimed",
         call.step # "idle" => call.command \in Commands /\ Known(call.command),
         call.step = "finished" => call.outcome \in Terminal,
         UNCHANGED <<receipts, invoked, aggregate>>
  PROVE  Inv'
  <1> USE DEF Inv, TypeOK, Known
  <1>1. TypeOK'  OBVIOUS
  <1>2. Serving'  BY DEF Serving
  <1>3. Claimed'  BY DEF Claimed
  <1>4. Invoked'  BY DEF Invoked
  <1> QED  BY <1>1, <1>2, <1>3, <1>4

LEMMA IdleCall == Idle \in Calls /\ Idle.step = "idle"
  BY DEF Idle, Calls

LEMMA ResumeStep ==
  ASSUME Inv, NEW h \in Handlers, NEW c \in Commands, Resume(h, c)
  PROVE  Inv'
  <1> DEFINE call == [command |-> c, step |-> "reserved", outcome |-> "none"]
  <1>1. call \in Calls /\ call.step = "reserved" /\ call.command = c  BY DEF Calls
  <1>2. /\ Known(c) /\ calls' = [calls EXCEPT ![h] = call]
        /\ UNCHANGED <<receipts, invoked, aggregate>>
    BY DEF Resume, Serve, stores, history
  <1> QED  BY <1>1, <1>2, CallOnly

LEMMA LeaveStep ==
  ASSUME Inv, NEW h \in Handlers, Leave(h), UNCHANGED <<receipts, invoked, aggregate>>
  PROVE  Inv'
  BY IdleCall, CallOnly DEF Leave

LEMMA ClaimStep ==
  ASSUME Inv, NEW h \in Handlers, ClaimEffect(h)
  PROVE  Inv'
  <1> USE DEF Inv, TypeOK, Known
  <1>1. PICK c \in Commands : c = calls[h].command /\ calls[h].step = "reserved" /\ Known(c)
    BY DEF ClaimEffect, Serving
  <1>2. CASE receipts[c].state # "pending"
    <2>1. Leave(h) /\ UNCHANGED <<receipts, invoked, aggregate>>
      BY <1>1, <1>2 DEF ClaimEffect, stores, history
    <2> QED  BY <2>1, LeaveStep
  <1>3. CASE receipts[c].state = "pending"
    <2> DEFINE call == [command |-> c, step |-> "claimed", outcome |-> "none"]
    <2>1. /\ receipts' = [receipts EXCEPT ![c].state = "executing"]
          /\ calls' = [calls EXCEPT ![h] = call]
          /\ UNCHANGED <<invoked, aggregate>>
      BY <1>1, <1>3 DEF ClaimEffect, Serve, stores, history
    <2>2. receipts[c] \in Receipts  BY <1>1
    <2>3. [receipts[c] EXCEPT !.state = "executing"] \in Receipts  BY <2>2 DEF Receipts
    <2>4. receipts'[c] = [receipts[c] EXCEPT !.state = "executing"]  BY <1>1, <2>1
    <2>5. receipts' \in [Commands -> Receipts \cup {NoReceipt}]  BY <2>1, <2>3
    <2>6. call \in Calls  BY <1>1 DEF Calls
    <2>7. TypeOK'  BY <2>1, <2>5, <2>6
    <2>8. receipts'[c].state = "executing"  BY <2>2, <2>4 DEF Receipts
    <2>9. Known(c)'  BY <2>3, <2>4, CommandConstants
    <2>10. \A d \in Commands : d # c => receipts'[d] = receipts[d]  BY <2>1
    <2>11. \A d \in Commands : Known(d) => Known(d)'  BY <2>9, <2>10
    <2>12. \A g \in Handlers : g # h => calls'[g] = calls[g]  BY <2>1
    <2>13. calls'[h] = call  BY <2>1
    <2>14. Serving'  BY <2>11, <2>12, <2>13, <1>1 DEF Serving
    <2>15. invoked[c] = 0  BY <1>1, <1>3 DEF Invoked
    <2>16. \A g \in Handlers : g # h /\ calls[g].step = "claimed" => calls[g].command # c
      BY <1>3 DEF Claimed
    <2>17. \A g \in Handlers : calls[g].step = "claimed" => calls[g].command \in Commands
      BY DEF Serving
    <2>18. Claimed'
      BY <2>1, <2>8, <2>10, <2>12, <2>13, <2>15, <2>16, <2>17 DEF Claimed
    <2>19. Invoked'  BY <2>1, <2>10, <2>11, <2>15 DEF Invoked
    <2> QED  BY <2>7, <2>14, <2>18, <2>19
  <1> QED  BY <1>2, <1>3

LEMMA FinishCall ==
  ASSUME Inv, NEW h \in Handlers, NEW outcome \in Terminal, Finish(h, outcome), calls[h].step # "idle"
  PROVE  \E call \in Calls :
            /\ calls' = [calls EXCEPT ![h] = call]
            /\ call.step = "finished" /\ call.outcome = outcome
            /\ call.command = calls[h].command
  <1> DEFINE call == [command |-> calls[h].command, step |-> "finished", outcome |-> outcome]
  <1>1. calls[h] \in Calls  BY DEF Inv, TypeOK
  <1>2. call \in Calls /\ call.step = "finished" /\ call.outcome = outcome
    BY <1>1 DEF Calls, Terminal
  <1>3. calls' = [calls EXCEPT ![h] = call]  BY DEF Finish
  <1> QED  BY <1>2, <1>3

LEMMA InvokeStep ==
  ASSUME Inv, NEW h \in Handlers, InvokeEffect(h)
  PROVE  Inv'
  <1> USE DEF Inv, TypeOK, Known
  <1>1. PICK c \in Commands : c = calls[h].command /\ calls[h].step = "claimed" /\ Known(c)
    BY DEF InvokeEffect, Serving
  <1>2. PICK outcome \in Terminal : Finish(h, outcome)  BY DEF InvokeEffect
  <1>3. PICK call \in Calls :
          /\ calls' = [calls EXCEPT ![h] = call]
          /\ call.step = "finished" /\ call.outcome = outcome /\ call.command = c
    BY <1>1, <1>2, FinishCall
  <1>4. receipts[c].state # "pending" /\ invoked[c] = 0  BY <1>1 DEF Claimed
  <1>5. invoked' = [invoked EXCEPT ![c] = @ + 1] /\ UNCHANGED <<receipts, aggregate>>
    BY <1>1 DEF InvokeEffect, stores
  <1>6. invoked'[c] = 1 /\ \A d \in Commands : d # c => invoked'[d] = invoked[d]
    BY <1>1, <1>4, <1>5
  <1>7. TypeOK'  BY <1>3, <1>5
  <1>8. Serving'  BY <1>1, <1>3, <1>5 DEF Serving
  <1>9. \A g \in Handlers : calls'[g].step = "claimed" =>
            g # h /\ calls'[g] = calls[g] /\ calls[g].command # c
    BY <1>1, <1>3 DEF Claimed
  <1>10. Claimed'  BY <1>5, <1>6, <1>9 DEF Claimed, Serving
  <1>11. Invoked'  BY <1>1, <1>4, <1>5, <1>6 DEF Invoked
  <1> QED  BY <1>7, <1>8, <1>10, <1>11

LEMMA AcquisitionStep ==
  ASSUME Inv, NEW h \in Handlers, RequestAcquisition(h) \/ AcquisitionFails(h)
  PROVE  Inv'
  <1>1. /\ calls[h].step = "reserved"
        /\ \E outcome \in Terminal : Finish(h, outcome)
        /\ UNCHANGED <<receipts, invoked, aggregate>>
    BY DEF RequestAcquisition, AcquisitionFails, Terminal, stores, history
  <1>2. PICK outcome \in Terminal : Finish(h, outcome)  BY <1>1
  <1>3. PICK call \in Calls :
          /\ calls' = [calls EXCEPT ![h] = call]
          /\ call.step = "finished" /\ call.outcome = outcome
          /\ call.command = calls[h].command
    BY <1>1, <1>2, FinishCall
  <1>4. call.command \in Commands /\ Known(call.command)  BY <1>1, <1>3 DEF Inv, Serving
  <1> QED  BY <1>1, <1>3, <1>4, CallOnly

LEMMA FinalizeStep ==
  ASSUME Inv, NEW h \in Handlers, FinalizeExternal(h)
  PROVE  Inv'
  <1> USE DEF Inv, TypeOK, Known
  <1>1. PICK c \in Commands : c = calls[h].command /\ calls[h].step = "finished" /\ Known(c) /\ calls[h].outcome \in Terminal
    BY DEF FinalizeExternal, Serving
  <1>2. CASE Settled(c)
    BY <1>1, <1>2, LeaveStep DEF FinalizeExternal, history
  <1>3. CASE ~Settled(c)
    <2> DEFINE receipt == Receipt(receipts[c].write, calls[h].outcome, aggregate + 1)
    <2>1. receipts[c] \in Receipts  BY <1>1
    <2>2. receipt \in Receipts /\ receipt.state = calls[h].outcome
      BY <1>1, <2>1 DEF Receipts, Receipt, Terminal
    <2>3. /\ receipts' = [receipts EXCEPT ![c] = receipt]
          /\ calls' = [calls EXCEPT ![h] = Idle]
          /\ aggregate' = aggregate + 1 /\ invoked' = invoked
      BY <1>1, <1>3 DEF FinalizeExternal, Leave, history
    <2>4. TypeOK'  BY <2>2, <2>3, IdleCall
    <2>5. receipts'[c] = receipt /\ \A d \in Commands : d # c => receipts'[d] = receipts[d]
      BY <1>1, <2>3
    <2>6. receipts'[c].state # "pending" /\ Known(c)'
      BY <1>1, <2>2, <2>5, CommandConstants DEF Terminal
    <2>7. \A d \in Commands : Known(d) => Known(d)'  BY <2>5, <2>6
    <2>8. \A g \in Handlers : calls'[g].step # "idle" => calls'[g] = calls[g]
      BY <2>3, IdleCall
    <2>9. Serving'  BY <2>7, <2>8 DEF Serving
    <2>10. Claimed'  BY <2>3, <2>5, <2>6, <2>8 DEF Claimed, Serving
    <2>11. Invoked'  BY <2>3, <2>5, <2>6 DEF Invoked
    <2> QED  BY <2>4, <2>9, <2>10, <2>11
  <1> QED  BY <1>2, <1>3

LEMMA CrashStep ==
  ASSUME Inv, Crash
  PROVE  Inv'
  <1> USE DEF Inv, TypeOK, Known
  <1>1. /\ calls' = [h \in Handlers |-> Idle]
        /\ UNCHANGED <<receipts, invoked, aggregate>>
    BY DEF Crash, stores
  <1>2. TypeOK'  BY <1>1, IdleCall
  <1>3. \A h \in Handlers : calls'[h].step = "idle"  BY <1>1, IdleCall
  <1>4. Serving' /\ Claimed'  BY <1>3 DEF Serving, Claimed
  <1>5. Invoked'  BY <1>1 DEF Invoked
  <1> QED  BY <1>2, <1>4, <1>5

LEMMA StepInv == Inv /\ [Next]_vars => Inv'
  <1> SUFFICES ASSUME Inv, [Next]_vars PROVE Inv'  OBVIOUS
  <1>1. CASE \E c \in Commands : \E w \in WritesOf[c] : ApplyLocal(c, w)
    BY <1>1, LocalStep
  <1>2. CASE \E h \in Handlers, c \in Commands : \E w \in WritesOf[c] : Reserve(h, c, w)
    BY <1>2, ReserveStep
  <1>3. CASE \E h \in Handlers, c \in Commands : Resume(h, c)
    BY <1>3, ResumeStep
  <1>4. CASE \E h \in Handlers : Advance(h) \/ AcquisitionFails(h)
    BY <1>4, ClaimStep, InvokeStep, AcquisitionStep, FinalizeStep DEF Advance
  <1>5. CASE \E h \in Handlers : Cancelled(h)
    BY <1>5, LeaveStep DEF Cancelled, stores
  <1>6. CASE Crash
    BY <1>6, CrashStep
  <1>7. CASE UNCHANGED vars
    BY <1>7 DEF vars, stores, history, Inv, TypeOK, Serving, Claimed, Invoked, Known
  <1> QED  BY <1>1, <1>2, <1>3, <1>4, <1>5, <1>6, <1>7 DEF Next

THEOREM CommandInvariant == Spec => []Inv
  BY InitInv, StepInv, PTL DEF Spec

\* An effect is invoked at most once per command (EffectAtMostOnce).
THEOREM EffectsRunAtMostOnce == Spec => []EffectAtMostOnce
  <1>1. Inv => EffectAtMostOnce  BY DEF Inv, TypeOK, Invoked, EffectAtMostOnce
  <1> QED  BY <1>1, CommandInvariant, PTL


(***************************************************************************)
(* A settled receipt is final.                                             *)
(***************************************************************************)
LEMMA SettledStep ==
  ASSUME Inv, [Next]_vars, NEW c \in Commands, Settled(c)
  PROVE  receipts'[c] = receipts[c]
  <1> USE DEF Inv, TypeOK
  <1>1. ASSUME NEW d \in Commands, NEW w \in WritesOf[d], ApplyLocal(d, w)
        PROVE  receipts'[c] = receipts[c]
    <2>1. ~Known(d) /\ \E receipt : receipts' = [receipts EXCEPT ![d] = receipt]
      BY <1>1 DEF ApplyLocal, ApplyTag, AppendCaptureNote, UpdateCuratedNote, ApplyReading, New, Succeed
    <2> QED  BY <2>1 DEF Settled
  <1>2. ASSUME NEW h \in Handlers, NEW d \in Commands, NEW w \in WritesOf[d], Reserve(h, d, w)
        PROVE  receipts'[c] = receipts[c]
    BY <1>2 DEF Reserve, New, Settled
  <1>3. ASSUME NEW h \in Handlers, NEW d \in Commands, Resume(h, d)
        PROVE  receipts'[c] = receipts[c]
    BY <1>3 DEF Resume
  <1>4. ASSUME NEW h \in Handlers, ClaimEffect(h)
        PROVE  receipts'[c] = receipts[c]
    BY <1>4 DEF ClaimEffect, Settled, Terminal
  <1>5. ASSUME NEW h \in Handlers, FinalizeExternal(h)
        PROVE  receipts'[c] = receipts[c]
    BY <1>5 DEF FinalizeExternal
  <1>6. ASSUME NEW h \in Handlers, InvokeEffect(h) \/ RequestAcquisition(h)
                                      \/ AcquisitionFails(h) \/ Cancelled(h)
        PROVE  receipts'[c] = receipts[c]
    BY <1>6 DEF InvokeEffect, RequestAcquisition, AcquisitionFails, Cancelled
  <1>7. ASSUME Crash \/ UNCHANGED vars PROVE receipts'[c] = receipts[c]
    BY <1>7 DEF Crash, vars
  <1> QED  BY <1>1, <1>2, <1>3, <1>4, <1>5, <1>6, <1>7 DEF Next, Advance

\* Whichever of several requests comes back later, a settled receipt keeps its
\* outcome and its revision (SettledIsFinal).
THEOREM SettledReceiptsAreFinal == Spec => SettledIsFinal
  <1>1. Inv /\ [Next]_vars => [\A c \in Commands : Settled(c) => receipts'[c] = receipts[c]]_vars
    BY SettledStep
  <1> QED  BY <1>1, CommandInvariant, PTL DEF Spec, SettledIsFinal

(***************************************************************************)
(* The receipt of an acquisition tells what the acquisition table holds.   *)
(***************************************************************************)
Acquisition(c) == receipts[c].write.kind = "request_asset_acquisition"
Refused(c) == c \notin acquired /\ ~CustodyMayBecome(custody, receipts[c].write.arg)
\* Does "result" tell the truth about c?  A refused request stays refused, as
\* custody only rises.
Tells(c, result) ==
    /\ result = "succeeded" => c \in acquired
    /\ result = "failed" => c \in misreported \/ Refused(c)

Truthful ==
    /\ \A c \in Commands : Known(c) /\ Acquisition(c) => Tells(c, receipts[c].state)
    /\ \A h \in Handlers : calls[h].step = "finished" /\ Acquisition(calls[h].command) =>
           Tells(calls[h].command, calls[h].outcome)
    /\ \A h \in Handlers : calls[h].step = "claimed" => ~Acquisition(calls[h].command)

LEMMA CustodyRises ==
  ASSUME NEW from, NEW to, NEW other, CustodyMayBecome(from, to), ~CustodyMayBecome(from, other)
  PROVE  ~CustodyMayBecome(to, other)
  BY DEF CustodyMayBecome

LEMMA TruthfulStep == Inv /\ Truthful /\ [Next]_vars => Truthful'
  <1> SUFFICES ASSUME Inv, Truthful, [Next]_vars PROVE Truthful'  OBVIOUS
  <1> USE DEF Inv, TypeOK
  <1>1. ASSUME NEW d \in Commands, NEW w \in WritesOf[d], ApplyLocal(d, w)
        PROVE  Truthful'
    <2>1. /\ ~Known(d) /\ w.kind # "request_asset_acquisition"
          /\ \E receipt : receipt.write = w /\ receipts' = [receipts EXCEPT ![d] = receipt]
          /\ UNCHANGED <<custody, acquired, misreported, calls>>
      BY <1>1 DEF ApplyLocal, ApplyTag, AppendCaptureNote, UpdateCuratedNote, ApplyReading, New,
                  Succeed, Receipt, history
    <2>2. receipts'[d].write = w /\ \A c \in Commands : c # d => receipts'[c] = receipts[c]
      BY <2>1
    <2>3. \A h \in Handlers : calls[h].step # "idle" => calls[h].command \in Commands \ {d}
      BY <2>1 DEF Serving
    <2> QED  BY <2>1, <2>2, <2>3 DEF Truthful, Tells, Refused, Acquisition, Known
  <1>2. ASSUME NEW h \in Handlers, NEW d \in Commands, NEW w \in WritesOf[d], Reserve(h, d, w)
        PROVE  Truthful'
    <2>1. /\ ~Known(d) /\ receipts' = [receipts EXCEPT ![d] = Receipt(w, "pending", aggregate)]
          /\ calls' = [calls EXCEPT ![h] = [command |-> d, step |-> "reserved", outcome |-> "none"]]
          /\ UNCHANGED <<custody, acquired, misreported>>
      BY <1>2 DEF Reserve, New, Serve, history
    <2>2. receipts'[d].state = "pending" /\ \A c \in Commands : c # d => receipts'[c] = receipts[c]
      BY <2>1 DEF Receipt
    <2>3. \A g \in Handlers : calls'[g].step \in {"claimed", "finished"} =>
              calls'[g] = calls[g] /\ calls[g].command \in Commands \ {d}
      BY <2>1 DEF Serving
    <2> QED  BY <2>1, <2>2, <2>3 DEF Truthful, Tells, Refused, Acquisition, Known
  <1>3. ASSUME NEW h \in Handlers, NEW d \in Commands, Resume(h, d)
        PROVE  Truthful'
    <2>1. /\ calls' = [calls EXCEPT ![h] = [command |-> d, step |-> "reserved", outcome |-> "none"]]
          /\ UNCHANGED <<receipts, custody, acquired, misreported>>
      BY <1>3 DEF Resume, Serve, history
    <2>2. \A g \in Handlers : calls'[g].step \in {"claimed", "finished"} => calls'[g] = calls[g]
      BY <2>1
    <2> QED  BY <2>1, <2>2 DEF Truthful, Tells, Refused, Acquisition, Known
  <1>4. ASSUME NEW h \in Handlers, Leave(h), UNCHANGED <<receipts, custody, acquired>>,
               misreported' = misreported
        PROVE  Truthful'
    <2>1. \A g \in Handlers : calls'[g].step \in {"claimed", "finished"} => calls'[g] = calls[g]
      BY <1>4, IdleCall DEF Leave
    <2> QED  BY <1>4, <2>1 DEF Truthful, Tells, Refused, Acquisition, Known
  <1>5. ASSUME NEW h \in Handlers, ClaimEffect(h)
        PROVE  Truthful'
    <2>1. PICK c \in Commands : c = calls[h].command /\ Known(c) /\ receipts[c].write.kind \in Effects
      BY <1>5 DEF ClaimEffect, Serving
    <2>2. CASE receipts[c].state # "pending"
      BY <1>4, <1>5, <2>1, <2>2 DEF ClaimEffect, history
    <2>3. CASE receipts[c].state = "pending"
      <3>1. /\ receipts' = [receipts EXCEPT ![c].state = "executing"]
            /\ calls' = [calls EXCEPT ![h] = [command |-> c, step |-> "claimed", outcome |-> "none"]]
            /\ UNCHANGED <<custody, acquired, misreported>>
        BY <1>5, <2>1, <2>3 DEF ClaimEffect, Serve, history
      <3>2. receipts[c] \in Receipts  BY <2>1 DEF Known
      <3>3. receipts'[c].write = receipts[c].write  BY <3>1, <3>2 DEF Receipts
      <3>4. \A d \in Commands : d # c => receipts'[d] = receipts[d]  BY <3>1
      <3>5. receipts[c].write.kind # "request_asset_acquisition"  BY <2>1 DEF Effects
      <3>6. \A g \in Handlers : g # h => calls'[g] = calls[g]  BY <3>1
      <3>7. calls'[h].command = c /\ calls'[h].step = "claimed"  BY <3>1
      <3>8. \A g \in Handlers : calls[g].step # "idle" => calls[g].command \in Commands
        BY DEF Serving
      <3> QED  BY <3>1, <3>3, <3>4, <3>5, <3>6, <3>7, <3>8
               DEF Truthful, Tells, Refused, Acquisition, Known
    <2> QED  BY <2>2, <2>3
  <1>6. ASSUME NEW h \in Handlers, InvokeEffect(h)
        PROVE  Truthful'
    <2>1. /\ calls[h].step = "claimed" /\ \E outcome \in Terminal : Finish(h, outcome)
          /\ UNCHANGED <<receipts, custody, acquired, misreported>>
      BY <1>6 DEF InvokeEffect
    <2>2. calls'[h].command = calls[h].command /\ \A g \in Handlers : g # h => calls'[g] = calls[g]
      BY <2>1 DEF Finish
    <2>3. ~Acquisition(calls[h].command)  BY <2>1 DEF Truthful
    <2>4. ~Acquisition(calls[h].command)'  BY <2>1, <2>2, <2>3 DEF Acquisition
    <2>5. calls'[h].step = "finished"  BY <2>1 DEF Finish
    <2> QED  BY <2>1, <2>2, <2>4, <2>5 DEF Truthful, Tells, Refused, Acquisition, Known
  <1>7. ASSUME NEW h \in Handlers, RequestAcquisition(h) \/ AcquisitionFails(h)
        PROVE  Truthful'
    <2>1. PICK c \in Commands : c = calls[h].command /\ Known(c) /\ calls[h].step = "reserved"
      BY <1>7 DEF RequestAcquisition, AcquisitionFails, Serving
    <2>2. /\ \E outcome : Finish(h, outcome)
          /\ UNCHANGED receipts
          /\ misreported \subseteq misreported' /\ acquired \subseteq acquired'
      BY <1>7, <2>1 DEF RequestAcquisition, AcquisitionFails, history
    <2>3. Tells(c, calls[h].outcome)'
      BY <1>7, <2>1, <2>2
         DEF RequestAcquisition, AcquisitionFails, Finish, Tells, Refused, history
    <2>4. ASSUME NEW d \in Commands, Refused(d) PROVE Refused(d)'
      BY <1>7, <2>1, <2>2, <2>4, CustodyRises DEF RequestAcquisition, AcquisitionFails, Refused
    <2>5. \A d \in Commands : \A result : Tells(d, result) => Tells(d, result)'
      BY <2>2, <2>4 DEF Tells
    <2>6. calls'[h].command = c /\ calls'[h].step = "finished"
            /\ \A g \in Handlers : g # h => calls'[g] = calls[g]
      BY <2>1, <2>2 DEF Finish
    <2>7. \A g \in Handlers : calls[g].step # "idle" => calls[g].command \in Commands
      BY DEF Serving
    <2> QED  BY <2>2, <2>3, <2>5, <2>6, <2>7 DEF Truthful, Acquisition, Known
  <1>8. ASSUME NEW h \in Handlers, FinalizeExternal(h)
        PROVE  Truthful'
    <2>1. PICK c \in Commands : c = calls[h].command /\ Known(c) /\ calls[h].step = "finished"
      BY <1>8 DEF FinalizeExternal, Serving
    <2>2. CASE Settled(c)
      BY <1>4, <1>8, <2>1, <2>2 DEF FinalizeExternal, history
    <2>3. CASE ~Settled(c)
      <3>1. /\ receipts' = [receipts EXCEPT ![c] = Receipt(receipts[c].write, calls[h].outcome, aggregate + 1)]
            /\ calls' = [calls EXCEPT ![h] = Idle]
            /\ UNCHANGED <<custody, acquired, misreported>>
        BY <1>8, <2>1, <2>3 DEF FinalizeExternal, Leave, history
      <3>2. receipts'[c].write = receipts[c].write /\ receipts'[c].state = calls[h].outcome
        BY <3>1 DEF Receipt
      <3>3. \A d \in Commands : d # c => receipts'[d] = receipts[d]  BY <3>1
      <3>4. Acquisition(c) => Tells(c, calls[h].outcome)  BY <2>1 DEF Truthful
      <3>5. \A g \in Handlers : calls'[g].step \in {"claimed", "finished"} =>
                calls'[g] = calls[g] /\ calls[g].command \in Commands
        BY <3>1, IdleCall DEF Serving
      <3>6. \A d \in Commands : Acquisition(d)' <=> Acquisition(d)
        BY <3>2, <3>3 DEF Acquisition
      <3>7. \A d \in Commands : \A result : Tells(d, result) => Tells(d, result)'
        <4>1. \A d \in Commands : receipts'[d].write = receipts[d].write  BY <3>2, <3>3
        <4>2. \A d \in Commands : Refused(d) => Refused(d)'  BY <3>1, <4>1 DEF Refused
        <4> QED  BY <3>1, <4>2 DEF Tells
      <3>8. ASSUME NEW d \in Commands, Known(d)', Acquisition(d)'
            PROVE  Tells(d, receipts[d].state)'
        <4>1. PICK told : told = receipts'[d].state  OBVIOUS
        <4>2. Acquisition(d)  BY <3>6, <3>8
        <4>3. CASE d = c
          <5>1. told = calls[h].outcome  BY <3>2, <4>1, <4>3
          <5>2. Tells(d, told)  BY <3>4, <4>2, <4>3, <5>1
          <5>3. Tells(d, told)'  BY <3>7, <5>2
          <5> QED  BY <4>1, <5>3
        <4>4. CASE d # c
          <5>1. receipts'[d] = receipts[d]  BY <3>3, <4>4
          <5>2. Known(d)  BY <3>8, <5>1 DEF Known
          <5>3. Tells(d, told)  BY <4>1, <4>2, <5>1, <5>2 DEF Truthful
          <5>4. Tells(d, told)'  BY <3>7, <5>3
          <5> QED  BY <4>1, <5>4
        <4> QED  BY <4>3, <4>4
      <3>9. ASSUME NEW g \in Handlers, calls'[g].step = "finished",
                   Acquisition(calls[g].command)'
            PROVE  Tells(calls[g].command, calls[g].outcome)'
        <4>1. calls'[g] = calls[g]  BY <3>5, <3>9
        <4>2. PICK d \in Commands : d = calls[g].command  BY <3>5, <3>9
        <4>3. PICK told : told = calls[g].outcome  OBVIOUS
        <4>4. Acquisition(d)  BY <3>6, <3>9, <4>1, <4>2 DEF Acquisition
        <4>5. Tells(d, told)  BY <3>9, <4>1, <4>2, <4>3, <4>4 DEF Truthful
        <4>6. Tells(d, told)'  BY <3>7, <4>5
        <4> QED  BY <4>1, <4>2, <4>3, <4>6
      <3>10. ASSUME NEW g \in Handlers, calls'[g].step = "claimed"
             PROVE  ~Acquisition(calls[g].command)'
        <4>1. calls'[g] = calls[g] /\ calls[g].command \in Commands  BY <3>5, <3>10
        <4>2. ~Acquisition(calls[g].command)  BY <3>10, <4>1 DEF Truthful
        <4> QED  BY <3>6, <4>1, <4>2 DEF Acquisition
      <3> QED  BY <3>8, <3>9, <3>10 DEF Truthful
    <2> QED  BY <2>2, <2>3
  <1>9. ASSUME Crash PROVE Truthful'
    <2>1. \A h \in Handlers : calls'[h].step = "idle"  BY <1>9, IdleCall DEF Crash
    <2> QED  BY <1>9, <2>1 DEF Crash, Truthful, Tells, Refused, Acquisition, Known
  <1>10. ASSUME UNCHANGED vars PROVE Truthful'
    BY <1>10 DEF vars, history, Truthful, Tells, Refused, Acquisition, Known
  <1>11. ASSUME NEW h \in Handlers, Cancelled(h) PROVE Truthful'
    BY <1>4, <1>11 DEF Cancelled
  <1> QED  BY <1>1, <1>2, <1>3, <1>5, <1>6, <1>7, <1>8, <1>9, <1>10, <1>11 DEF Next, Advance

\* The receipt of an acquisition says what the acquisition table holds, however
\* many requests work on it (ReceiptMatchesAcquisition).
THEOREM ReceiptsTellTheTruth == Spec => []ReceiptMatchesAcquisition
  <1>1. Init => Truthful
    BY IdleCall DEF Init, Truthful, Known, Acquisition
  <1>2. Truthful => ReceiptMatchesAcquisition
    BY DEF Truthful, Tells, Refused, Acquisition, ReceiptMatchesAcquisition
  <1> QED  BY <1>1, <1>2, TruthfulStep, CommandInvariant, PTL DEF Spec

(***************************************************************************)
(* Media.                                                                  *)
(***************************************************************************)

Steps == {"idle", "variant", "blob", "open", "verify", "sniff", "serve"}
RequestStates ==
    [step : Steps, asked : Requests \cup {Nothing}, row : Row \cup {Nothing},
     blob : Contents \cup {Nothing}, path : Paths \cup {Nothing},
     content : Contents \cup {Nothing}, rewritten : BOOLEAN]
FileOpen == request.step \in {"verify", "sniff", "serve"}
\* The bytes agree with every digest the row has.
Genuine(r, content) ==
    /\ r.blob # Nothing => content = r.blob
    /\ r.expected # Nothing => content = r.expected

MediaTypeOK ==
    /\ variantRow \in Row
    /\ paths \in [Paths -> Contents \cup {Nothing}]
    /\ request \in RequestStates

\* What each step of a request has made sure of.
AskedFor == request.step # "idle" =>
    /\ request.asked \in Requests
    /\ request.asked.revision \in Attached /\ request.asked.fragment \in Aliases
RowIsRead == request.step \in Steps \ {"idle", "variant"} => request.row \in Row
BlobIsNamed == request.step = "blob" => request.row.blob # Nothing
RowServes == FileOpen =>
    /\ request.content \in Contents
    /\ request.row.state = "available" /\ request.row.custody # "reference"
Checked == request.step \in {"sniff", "serve"} /\ ~request.rewritten =>
    Genuine(request.row, request.content)
Harmless == request.step = "serve" /\ ~request.rewritten => SniffedOf[request.content] # "active"

KeptInv ==
    MediaTypeOK /\ AskedFor /\ RowIsRead /\ BlobIsNamed /\ RowServes /\ Checked /\ Harmless /\ ServedIsKept

\* A valid range selects bytes the file has.
LEMMA SliceInFile ==
  ASSUME NEW range \in [first : Nat \cup {Nothing}, last : Nat \cup {Nothing}], NEW size \in Nat,
         Nothing \notin Nat, range # Nothing, validSingleByteRange(range, size)
  PROVE  Slice(range, size)[1] \in 0..Slice(range, size)[2] /\ Slice(range, size)[2] < size
<1>1. range.first \in Nat \cup {Nothing} /\ range.last \in Nat \cup {Nothing}  OBVIOUS
<1>2. CASE range.first = Nothing
  <2>1. range.last \in Nat /\ range.last > 0 /\ size > 0
    BY <1>1, <1>2 DEF validSingleByteRange
  <2>2. Slice(range, size) = <<IF range.last > size THEN 0 ELSE size - range.last, size - 1>>
    BY <1>2 DEF Slice
  <2> QED  BY <2>1, <2>2
<1>3. CASE range.first # Nothing
  <2>1. /\ range.first \in Nat /\ range.first < size
        /\ range.last = Nothing \/ (range.last \in Nat /\ range.last >= range.first)
    BY <1>1, <1>3 DEF validSingleByteRange
  <2>2. Slice(range, size) =
          <<range.first, IF range.last = Nothing \/ range.last >= size THEN size - 1 ELSE range.last>>
    BY <1>3 DEF Slice
  <2> QED  BY <2>1, <2>2
<1> QED  BY <1>2, <1>3

LEMMA ServedIsKeptInit ==
  ASSUME ResourceAssumption, ResourceInit
  PROVE  KeptInv
<1>1. variantRow \in Row /\ answer.code = "not_found" /\ request = Unasked
  BY DEF ResourceAssumption, ResourceInit, NotFound
<1>2. Unasked \in RequestStates /\ Unasked.step = "idle"
  BY DEF Unasked, RequestStates, Steps
<1>3. MediaTypeOK  BY <1>1, <1>2 DEF MediaTypeOK, ResourceInit
<1> QED  BY <1>1, <1>2, <1>3
         DEF KeptInv, AskedFor, RowIsRead, BlobIsNamed, RowServes, Checked, Harmless, ServedIsKept, FileOpen

\* A request that ends without being served leaves nothing open.
LEMMA EndKeeps ==
  ASSUME KeptInv, NEW a, Ends(a), a.code # "served"
  PROVE  KeptInv'
<1>1. request'.step = "idle" /\ request' \in RequestStates /\ answer' = a /\ UNCHANGED <<variantRow, blobs, paths>>
  BY DEF Ends, Unasked, RequestStates, Steps
<1>2. MediaTypeOK'  BY <1>1 DEF KeptInv, MediaTypeOK
<1> QED  BY <1>1, <1>2
         DEF KeptInv, AskedFor, RowIsRead, BlobIsNamed, RowServes, Checked, Harmless, ServedIsKept, FileOpen

LEMMA ServedIsKeptStep ==
  ASSUME ResourceAssumption, KeptInv, [ResourceNext]_resourceVars
  PROVE  KeptInv'
<1> USE DEF KeptInv
<1>0. request \in RequestStates /\ paths \in [Paths -> Contents \cup {Nothing}] /\ variantRow \in Row
  BY DEF MediaTypeOK
<1>1. CASE \E q \in Requests : GetRevision(q)
  <2>1. PICK q \in Requests : GetRevision(q)  BY <1>1
  <2>2. CASE q.fragment \notin Aliases \/ q.revision \notin Attached
    BY <2>1, <2>2, EndKeeps DEF GetRevision, NotFound
  <2>3. CASE q.fragment \in Aliases /\ q.revision \in Attached
    <3>1. /\ request'.step = "variant" /\ request'.asked = q /\ request' \in RequestStates
          /\ UNCHANGED <<variantRow, blobs, paths, answer>>
      BY <2>1, <2>3 DEF GetRevision, Goes, Unasked, RequestStates, Steps
    <3>2. MediaTypeOK'  BY <3>1 DEF MediaTypeOK
    <3> QED  BY <2>3, <3>1, <3>2
             DEF AskedFor, RowIsRead, BlobIsNamed, RowServes, Checked, Harmless, ServedIsKept, FileOpen
  <2> QED  BY <2>2, <2>3
<1>2. CASE \E q \in [fragment : Aliases \cup {"another"}, revision : 1..2], whole \in BOOLEAN :
               Article(q, whole)
  <2>1. PICK q \in [fragment : Aliases \cup {"another"}, revision : 1..2], whole \in BOOLEAN :
               Article(q, whole)
    BY <1>2
  <2>2. PICK a : a = IF q.fragment \notin Aliases THEN NotFound
                    ELSE IF ~whole THEN Broken("revision content digest mismatch")
                    ELSE [code |-> "article", reason |-> "none", retryable |-> FALSE]
    OBVIOUS
  <2>3. Ends(a)  BY <2>1, <2>2 DEF Article
  <2>4. a.code # "served"  BY <2>2 DEF NotFound, Broken
  <2> QED  BY <2>3, <2>4, EndKeeps
<1>3. CASE GetVariant
  <2>1. PICK step \in {"open", "blob"} :
          /\ step = "blob" => variantRow.blob # Nothing
          /\ request' = [request EXCEPT !.step = step, !.row = variantRow]
          /\ request.step = "variant" /\ UNCHANGED <<variantRow, blobs, paths, answer>>
    BY <1>3 DEF GetVariant, Goes
  <2>2. /\ request'.step = step /\ request'.row = variantRow /\ request'.asked = request.asked
        /\ request' \in RequestStates
    BY <1>0, <2>1 DEF RequestStates, Steps
  <2>3. MediaTypeOK'  BY <2>1, <2>2 DEF MediaTypeOK
  <2> QED  BY <1>0, <2>1, <2>2, <2>3
           DEF AskedFor, RowIsRead, BlobIsNamed, RowServes, Checked, Harmless, ServedIsKept, FileOpen
<1>4. CASE FindBlob
  <2>1. request.step = "blob" /\ request.row.blob \in Contents
    BY <1>4 DEF FindBlob, RowIsRead, BlobIsNamed, Row, Steps
  <2>2. CASE request.row.blob \in blobs
    <3>1. /\ request' = [request EXCEPT !.step = "open", !.blob = request.row.blob]
          /\ UNCHANGED <<variantRow, blobs, paths, answer>>
      BY <1>4, <2>2 DEF FindBlob, Goes
    <3>2. /\ request'.step = "open" /\ request'.row = request.row /\ request'.asked = request.asked
          /\ request' \in RequestStates
      BY <1>0, <2>1, <3>1 DEF RequestStates, Steps
    <3>3. MediaTypeOK'  BY <3>1, <3>2 DEF MediaTypeOK
    <3> QED  BY <2>1, <3>1, <3>2, <3>3
             DEF AskedFor, RowIsRead, BlobIsNamed, RowServes, Checked, Harmless, ServedIsKept, FileOpen, Steps
  <2>3. CASE request.row.blob \notin blobs
    BY <1>4, <2>3, EndKeeps DEF FindBlob, NotFound
  <2> QED  BY <2>2, <2>3
<1>5. CASE OpenMedia
  <2>1. request.step = "open" /\ request.row \in Row  BY <1>5 DEF OpenMedia, RowIsRead, Steps
  <2>2. CASE \E reason, retryable : Ends(Unavailable(reason, retryable)) \/ Ends(Broken(reason))
    <3>1. PICK a : Ends(a) /\ a.code # "served"  BY <2>2 DEF Unavailable, Broken
    <3> QED  BY <3>1, EndKeeps
  <2>3. CASE ~\E reason, retryable : Ends(Unavailable(reason, retryable)) \/ Ends(Broken(reason))
    <3>1. request.row.state = "available" /\ request.row.custody # "reference"
      BY <1>5, <2>3 DEF OpenMedia, Withheld
    <3>2. PICK path \in Paths : paths[path] # Nothing /\ Opens(path)
      BY <1>0, <1>5, <2>3, <3>1 DEF OpenMedia, RequestStates, Paths
    <3>3. /\ request' = [request EXCEPT !.step = "verify", !.path = path, !.content = paths[path]]
          /\ UNCHANGED <<variantRow, blobs, paths, answer>>
      BY <3>2 DEF Opens, Goes
    <3>4. paths[path] \in Contents  BY <1>0, <3>2
    <3>5. /\ request'.step = "verify" /\ request'.row = request.row /\ request'.asked = request.asked
          /\ request'.content \in Contents /\ request' \in RequestStates
      BY <1>0, <3>2, <3>3, <3>4 DEF RequestStates, Steps
    <3>6. MediaTypeOK'  BY <3>3, <3>5 DEF MediaTypeOK
    <3> QED  BY <2>1, <3>1, <3>3, <3>5, <3>6
             DEF AskedFor, RowIsRead, BlobIsNamed, RowServes, Checked, Harmless, ServedIsKept, FileOpen
  <2> QED  BY <2>2, <2>3
<1>6. CASE Verify
  <2>1. CASE ~Agrees(request.content)
    BY <1>6, <2>1, EndKeeps DEF Verify, Broken
  <2>2. CASE Agrees(request.content)
    <3>1. /\ request.step = "verify" /\ request' = [request EXCEPT !.step = "sniff"]
          /\ UNCHANGED <<variantRow, blobs, paths, answer>>
      BY <1>6, <2>2 DEF Verify, Goes
    <3>2. Genuine(request.row, request.content)
      BY <2>2 DEF Agrees, Expected, Genuine
    <3>3. /\ request'.step = "sniff" /\ request'.row = request.row /\ request'.asked = request.asked
          /\ request'.content = request.content /\ request' \in RequestStates
      BY <1>0, <3>1 DEF RequestStates, Steps
    <3>4. MediaTypeOK'  BY <3>1, <3>3 DEF MediaTypeOK
    <3>5. AskedFor' /\ RowIsRead' /\ BlobIsNamed'
      BY <3>1, <3>3 DEF AskedFor, RowIsRead, BlobIsNamed, Steps
    <3>6. RowServes'  BY <3>1, <3>3 DEF RowServes, FileOpen
    <3>7. Checked' /\ Harmless'  BY <3>2, <3>3 DEF Checked, Harmless, Genuine
    <3> QED  BY <3>1, <3>4, <3>5, <3>6, <3>7 DEF ServedIsKept
  <2> QED  BY <2>1, <2>2
<1>7. CASE SafeType
  <2>1. CASE ~safeReaderMediaType(request.row, SniffedOf[request.content])
    BY <1>7, <2>1, EndKeeps DEF SafeType, Unavailable
  <2>2. CASE safeReaderMediaType(request.row, SniffedOf[request.content])
    <3>1. /\ request.step = "sniff" /\ request' = [request EXCEPT !.step = "serve"]
          /\ UNCHANGED <<variantRow, blobs, paths, answer>>
      BY <1>7, <2>2 DEF SafeType, Goes
    <3>2. SniffedOf[request.content] # "active"  BY <2>2 DEF safeReaderMediaType
    <3>3. /\ request'.step = "serve" /\ request'.row = request.row /\ request'.asked = request.asked
          /\ request'.content = request.content /\ request'.rewritten = request.rewritten
          /\ request' \in RequestStates
      BY <1>0, <3>1 DEF RequestStates, Steps
    <3>4. MediaTypeOK'  BY <3>1, <3>3 DEF MediaTypeOK
    <3>5. AskedFor' /\ RowIsRead' /\ BlobIsNamed'
      BY <3>1, <3>3 DEF AskedFor, RowIsRead, BlobIsNamed, Steps
    <3>6. RowServes'  BY <3>1, <3>3 DEF RowServes, FileOpen
    <3>7. Checked' /\ Harmless'  BY <3>1, <3>2, <3>3 DEF Checked, Harmless, Genuine
    <3> QED  BY <3>1, <3>4, <3>5, <3>6, <3>7 DEF ServedIsKept
  <2> QED  BY <2>1, <2>2
<1>8. CASE ServeContent
  <2>1. PICK size, range : size = SizeOf[request.content] /\ range = request.asked.range  OBVIOUS
  <2>2. CASE range # Nothing /\ ~validSingleByteRange(range, size)
    BY <1>8, <2>1, <2>2, EndKeeps DEF ServeContent
  <2>3. CASE range = Nothing \/ validSingleByteRange(range, size)
    <3>1. PICK a : /\ Ends(a)
                   /\ a = [code |-> "served", content |-> request.content, row |-> request.row,
                           asked |-> request.asked, rewritten |-> request.rewritten,
                           slice |-> Slice(range, size), size |-> size]
      BY <1>8, <2>1, <2>3 DEF ServeContent
    <3>2. /\ request'.step = "idle" /\ request' \in RequestStates /\ answer' = a
          /\ UNCHANGED <<variantRow, blobs, paths>>
      BY <3>1 DEF Ends, Unasked, RequestStates, Steps
    <3>3. MediaTypeOK'  BY <3>2 DEF MediaTypeOK
    <3>4. /\ request.step = "serve" /\ request.asked \in Requests /\ request.content \in Contents
          /\ request.asked.revision \in Attached /\ request.asked.fragment \in Aliases
          /\ request.row.state = "available" /\ request.row.custody # "reference"
          /\ ~request.rewritten => Genuine(request.row, request.content)
          /\ ~request.rewritten => SniffedOf[request.content] # "active"
      BY <1>8 DEF ServeContent, AskedFor, RowServes, Checked, Harmless, FileOpen
    <3>5. size \in Nat /\ Nothing \notin Nat /\ range \in Ranges
      BY <2>1, <3>4 DEF ResourceAssumption, Requests
    <3>6. range # Nothing => range \in [first : Nat \cup {Nothing}, last : Nat \cup {Nothing}]
      BY <3>5 DEF ResourceAssumption
    <3>7. range # Nothing => a.slice[1] \in 0..a.slice[2] /\ a.slice[2] < a.size
      BY <2>3, <3>1, <3>5, <3>6, SliceInFile
    <3>8. /\ a.asked.revision \in Attached /\ a.asked.fragment \in Aliases /\ a.asked.range = range
          /\ a.row.state = "available" /\ a.row.custody # "reference"
          /\ ~a.rewritten => Genuine(a.row, a.content) /\ SniffedOf[a.content] # "active"
      BY <2>1, <3>1, <3>4
    <3>9. ServedIsKept'  BY <3>2, <3>7, <3>8 DEF ServedIsKept, Genuine
    <3> QED  BY <3>2, <3>3, <3>9
             DEF AskedFor, RowIsRead, BlobIsNamed, RowServes, Checked, Harmless, FileOpen
  <2> QED  BY <2>2, <2>3
<1>9. CASE \E c \in Contents : Arrives(c)
  <2>1. PICK c \in Contents : Arrives(c)  BY <1>9
  <2>2. /\ variantRow' = [variantRow EXCEPT !.state = "available", !.blob = c, !.expected = c]
        /\ paths' = [paths EXCEPT ![c] = c] /\ UNCHANGED <<request, answer>>
    BY <2>1 DEF Arrives
  <2>3. variantRow' \in Row  BY <1>0, <2>2 DEF Row
  <2>4. paths' \in [Paths -> Contents \cup {Nothing}]  BY <1>0, <2>2
  <2>5. MediaTypeOK'  BY <1>0, <2>2, <2>3, <2>4 DEF MediaTypeOK
  <2> QED  BY <2>2, <2>5
           DEF AskedFor, RowIsRead, BlobIsNamed, RowServes, Checked, Harmless, ServedIsKept, FileOpen, Genuine
<1>10. CASE \E p \in Paths, c \in Contents \cup {Nothing} : Replaced(p, c)
  <2>1. PICK p \in Paths, c \in Contents \cup {Nothing} : Replaced(p, c)  BY <1>10
  <2>2. paths' = [paths EXCEPT ![p] = c] /\ UNCHANGED <<variantRow, request, answer>>
    BY <2>1 DEF Replaced
  <2>3. paths' \in [Paths -> Contents \cup {Nothing}]  BY <1>0, <2>2
  <2>4. MediaTypeOK'  BY <1>0, <2>2, <2>3 DEF MediaTypeOK
  <2> QED  BY <2>2, <2>4
           DEF AskedFor, RowIsRead, BlobIsNamed, RowServes, Checked, Harmless, ServedIsKept, FileOpen, Genuine
<1>11. CASE \E p \in Paths, c \in Contents : Rewritten(p, c)
  <2>1. PICK p \in Paths, c \in Contents : Rewritten(p, c)  BY <1>11
  <2>2. paths' = [paths EXCEPT ![p] = c] /\ UNCHANGED <<variantRow, answer>>
    BY <2>1 DEF Rewritten
  <2>3. paths' \in [Paths -> Contents \cup {Nothing}]  BY <1>0, <2>2
  <2>4. CASE request' = request
    <3>1. MediaTypeOK'  BY <1>0, <2>2, <2>3, <2>4 DEF MediaTypeOK
    <3> QED  BY <2>2, <2>4, <3>1
             DEF AskedFor, RowIsRead, BlobIsNamed, RowServes, Checked, Harmless, ServedIsKept, FileOpen, Genuine
  <2>5. CASE request' # request
    <3>1. PICK dirty \in BOOLEAN :
              /\ request' = [request EXCEPT !.content = c, !.rewritten = dirty]
              /\ request.step \in {"sniff", "serve"} => dirty = TRUE
      BY <1>0, <2>1, <2>5 DEF Rewritten, RequestStates
    <3>2. /\ request'.step = request.step /\ request'.row = request.row /\ request'.asked = request.asked
          /\ request'.content = c /\ request'.rewritten = dirty /\ request' \in RequestStates
      BY <1>0, <3>1 DEF RequestStates
    <3>3. MediaTypeOK'  BY <1>0, <2>2, <2>3, <3>2 DEF MediaTypeOK
    <3>4. AskedFor' /\ RowIsRead' /\ BlobIsNamed'
      BY <3>2 DEF AskedFor, RowIsRead, BlobIsNamed
    <3>5. RowServes'  BY <3>2 DEF RowServes, FileOpen
    <3>6. Checked' /\ Harmless'  BY <3>1, <3>2 DEF Checked, Harmless
    <3> QED  BY <2>2, <3>3, <3>4, <3>5, <3>6 DEF ServedIsKept
  <2> QED  BY <2>4, <2>5
<1>12. CASE UNCHANGED resourceVars
  BY <1>12 DEF resourceVars, MediaTypeOK, AskedFor, RowIsRead, BlobIsNamed, RowServes, Checked, Harmless,
               ServedIsKept, FileOpen, Genuine
<1> QED  BY <1>1, <1>2, <1>3, <1>4, <1>5, <1>6, <1>7, <1>8, <1>9, <1>10, <1>11, <1>12 DEF ResourceNext

THEOREM ServedBytesAreKept ==
  ASSUME ResourceAssumption
  PROVE  ResourceSpec => []ServedIsKept
<1>1. ResourceInit => KeptInv  BY ServedIsKeptInit
<1>2. KeptInv /\ [ResourceNext]_resourceVars => KeptInv'  BY ServedIsKeptStep
<1>3. KeptInv => ServedIsKept  BY DEF KeptInv
<1> QED  BY <1>1, <1>2, <1>3, PTL DEF ResourceSpec
================================================================================
