----------------------------- MODULE Decisions -----------------------------
(***************************************************************************)
(* Paid decisions (native-host/src/decisions): when a local ranking is     *)
(* ambiguous, a search may ask a provider, first with text and then, if it *)
(* was unsure, once more with a screenshot.                                *)
(*                                                                         *)
(* Several native hosts share the settings file and the allowance of       *)
(* images; the searches of a host share its bucket of tokens, and those    *)
(* that are identical one question and its cache.  All searches modelled   *)
(* look for the same on the same page and are past the local gate: they    *)
(* are identical when they share images, or do not, alike.  `other' stands *)
(* for the settings that are no part of that: the variable of the key.     *)
(***************************************************************************)
EXTENDS Naturals, FiniteSets

CONSTANTS Searches, Hosts, HostOf,
          Tokens,      \* BUCKET_CAPACITY
          ImageLimit,  \* DAILY_IMAGE_LIMIT
          MinutesADay,
          MaxMinute,   \* how far the clock goes (a bound)
          MaxSettings  \* how often settings are saved (a bound)

VARIABLES settings,    \* the settings file
          saves,
          slot,        \* host -> the provider kept from the last question
          question,    \* search -> where it is, and what its provider was made for
          asking,      \* topic -> the search whose question the others join
          remembered,  \* topic -> what the cache of its host holds
          tokens,      \* host -> calls it may still make
          minute,      \* the clock
          reserved,    \* files minute-<n>: minutes an image was reserved in
          requests     \* files request-<n>: reservations of each day

decisionVars == <<settings, saves, slot, question, asking, remembered, tokens, minute, reserved, requests>>
fileVars == <<minute, reserved, requests>>

Nobody == "nobody"
ASSUME DecisionAssumption == HostOf \in [Searches -> Hosts] /\ Nobody \notin Searches
Topics == Hosts \X BOOLEAN
Settings == [ready : BOOLEAN, images : BOOLEAN, other : {1, 2}]
NoProvider == [kind |-> "none", images |-> FALSE, other |-> 1]
Unasked == [pc |-> "new", images |-> FALSE, provider |-> NoProvider]
Day(m) == m \div MinutesADay
Days == 0..Day(MaxMinute)

DecisionInit ==
    /\ settings \in {s \in Settings : s.ready /\ s.other = 1} /\ saves = 0
    /\ slot = [h \in Hosts |-> NoProvider]
    /\ question = [s \in Searches |-> Unasked]
    /\ asking = [k \in Topics |-> Nobody] /\ remembered = [k \in Topics |-> {}]
    /\ tokens = [h \in Hosts |-> Tokens]
    /\ minute = 0 /\ reserved = {} /\ requests = [d \in Days |-> 0]

Goto(s, pc) == question' = [question EXCEPT ![s].pc = pc]
Raise(s, pc) == question' = [question EXCEPT ![s] = [Unasked EXCEPT !.pc = pc, !.images = settings.images]]
\* What a search asks about: the searches of one topic have one key.
Topic(s) == <<HostOf[s], question[s].images>>
Leader(s) == asking[Topic(s)] = s
\* The question is answered, for everyone who joined it.
Finish(s) ==
    /\ asking' = [asking EXCEPT ![Topic(s)] = Nobody]
    /\ question' = [t \in Searches |->
            IF t = s \/ (Topic(t) = Topic(s) /\ question[t].pc = "joined")
            THEN [Unasked EXCEPT !.pc = "done"] ELSE question[t]]
Keep(s, what) == remembered' = [remembered EXCEPT ![Topic(s)] = @ \cup what]
Spend(h) == tokens[h] > 0 /\ tokens' = [tokens EXCEPT ![h] = @ - 1]

\* decisionSearch up to its question: cached, joined, refused or asked.  A text
\* answer that was unsure is remembered and not paid for again.
Search(s) ==
    LET h == HostOf[s]
        topic == <<h, settings.images>>
    IN
    /\ question[s].pc = "new"
    /\ \/ /\ (~settings.ready \/ "answer" \in remembered[topic])
          /\ Goto(s, "done") /\ UNCHANGED <<asking, tokens>>
       \/ /\ settings.ready /\ "answer" \notin remembered[topic] /\ asking[topic] # Nobody
          /\ Raise(s, "joined") /\ UNCHANGED <<asking, tokens>>
       \/ /\ settings.ready /\ "answer" \notin remembered[topic] /\ asking[topic] = Nobody
          /\ \/ /\ "text" \in remembered[topic] /\ UNCHANGED tokens
                /\ asking' = [asking EXCEPT ![topic] = s] /\ Raise(s, "unsure")
             \/ /\ "text" \notin remembered[topic] /\ Spend(h)
                /\ asking' = [asking EXCEPT ![topic] = s] /\ Raise(s, "text")
             \/ /\ "text" \notin remembered[topic] /\ tokens[h] = 0
                /\ Goto(s, "done") /\ UNCHANGED <<asking, tokens>>
    /\ UNCHANGED <<settings, saves, slot, remembered, fileVars>>

-----------------------------------------------------------------------------
\* decide: the settings are read once more, an image takes its reservation, and
\* the provider kept from the last question serves when it looks the same.
ImageAvailable == minute \notin reserved /\ requests[Day(minute)] < ImageLimit
Reserve == /\ reserved' = reserved \cup {minute}
           /\ requests' = [requests EXCEPT ![Day(minute)] = @ + 1]

Fitting(h, kind) == slot[h].kind = kind /\ slot[h].images = settings.images
Provider(h, kind) == IF Fitting(h, kind) THEN slot[h]
                     ELSE [kind |-> kind, images |-> settings.images, other |-> settings.other]

Employ(s, kind, pc) ==
    /\ slot' = [slot EXCEPT ![HostOf[s]] = Provider(HostOf[s], kind)]
    /\ question' = [question EXCEPT ![s].pc = pc, ![s].provider = Provider(HostOf[s], kind)]

DecideText(s) ==
    /\ Leader(s) /\ question[s].pc = "text"
    /\ IF settings.ready THEN Employ(s, "text", "textQueued") /\ UNCHANGED asking
       ELSE Finish(s) /\ UNCHANGED slot
    /\ UNCHANGED <<settings, saves, remembered, tokens, fileVars>>

DecideImage(s) ==
    /\ Leader(s) /\ question[s].pc = "image"
    /\ IF settings.ready /\ settings.images /\ ImageAvailable
       THEN Employ(s, "image", "imageQueued") /\ Reserve /\ UNCHANGED asking
       ELSE Finish(s) /\ UNCHANGED <<slot, reserved, requests>>
    /\ UNCHANGED <<settings, saves, remembered, tokens, minute>>

\* The provider's turn comes, unless the deadline was first: nothing is sent
\* when the settings are not those the provider was made for.
CanSend_IgnoresImages(p) == settings.ready /\ settings.other = p.other
CanSend(p) == settings.ready /\ settings.images = p.images /\ settings.other = p.other

SendQueued(s, queued, sent) ==
    /\ Leader(s) /\ question[s].pc = queued
    /\ \/ /\ CanSend(question[s].provider) /\ UNCHANGED asking
          /\ question' = [question EXCEPT ![s].pc = sent, ![s].provider = NoProvider]
       \/ Finish(s)
    /\ UNCHANGED <<settings, saves, slot, remembered, tokens, fileVars>>
SendText(s) == SendQueued(s, "textQueued", "textSent")
SendImage(s) == SendQueued(s, "imageQueued", "imageSent")

\* An answer, an unsure one, or a failure that is not tried again.
TextAnswer(s) ==
    /\ Leader(s) /\ question[s].pc = "textSent"
    /\ \/ Keep(s, {"answer"}) /\ Finish(s)
       \/ Keep(s, {"text"}) /\ Goto(s, "unsure") /\ UNCHANGED asking
       \/ Finish(s) /\ UNCHANGED remembered
    /\ UNCHANGED <<settings, saves, slot, tokens, fileVars>>

\* The screenshot takes its time; then the cache, the settings, the allowance
\* and the tokens are looked at again.
Escalate(s) ==
    /\ Leader(s) /\ question[s].pc = "unsure"
    /\ \/ /\ question[s].images /\ (ImageAvailable \/ "visual" \in remembered[Topic(s)])
          /\ Goto(s, "captured") /\ UNCHANGED asking
       \/ Finish(s)
    /\ UNCHANGED <<settings, saves, slot, remembered, tokens, fileVars>>

Captured(s) ==
    /\ Leader(s) /\ question[s].pc = "captured"
    /\ \/ /\ settings.ready /\ settings.images = question[s].images
          /\ ImageAvailable /\ Spend(HostOf[s])
          /\ Goto(s, "image") /\ UNCHANGED asking
       \/ Finish(s) /\ UNCHANGED tokens
    /\ UNCHANGED <<settings, saves, slot, remembered, fileVars>>

ImageAnswer(s) ==
    /\ Leader(s) /\ question[s].pc = "imageSent"
    /\ (Keep(s, {"visual"}) \/ UNCHANGED remembered)
    /\ Finish(s)
    /\ UNCHANGED <<settings, saves, slot, tokens, fileVars>>

-----------------------------------------------------------------------------
\* Saved by this or another process, from the popup or the command line; only
\* decision.configure also drops the provider its own host has kept.
Save(s) ==
    /\ saves < MaxSettings /\ s # settings
    /\ settings' = s /\ saves' = saves + 1
    /\ \/ UNCHANGED slot
       \/ \E h \in Hosts : slot' = [slot EXCEPT ![h] = NoProvider]
    /\ UNCHANGED <<question, asking, remembered, tokens, fileVars>>

Expire(topic) ==
    /\ remembered[topic] # {} /\ remembered' = [remembered EXCEPT ![topic] = {}]
    /\ UNCHANGED <<settings, saves, slot, question, asking, tokens, fileVars>>

\* Time passes: the clock, and with it the bucket.
Tick == /\ minute < MaxMinute /\ minute' = minute + 1
        /\ tokens' = [h \in Hosts |-> Tokens]
        /\ UNCHANGED <<settings, saves, slot, question, asking, remembered, reserved, requests>>

DecisionNext ==
    \/ \E s \in Searches :
         \/ Search(s) \/ DecideText(s) \/ SendText(s) \/ TextAnswer(s)
         \/ Escalate(s) \/ Captured(s) \/ DecideImage(s) \/ SendImage(s) \/ ImageAnswer(s)
    \/ \E s \in Settings : Save(s)
    \/ \E topic \in Topics : Expire(topic)
    \/ Tick

DecisionSpec == DecisionInit /\ [][DecisionNext]_decisionVars

-----------------------------------------------------------------------------
DecisionTypeOK ==
    /\ settings \in Settings /\ saves \in 0..MaxSettings /\ minute \in 0..MaxMinute
    /\ \A s \in Searches :
          question[s].pc \in {"new", "joined", "text", "textQueued", "textSent", "unsure", "captured",
                              "image", "imageQueued", "imageSent", "done"}
    /\ tokens \in [Hosts -> 0..Tokens] /\ asking \in [Topics -> Searches \cup {Nobody}]
    /\ remembered \in [Topics -> SUBSET {"answer", "text", "visual"}]
    /\ reserved \subseteq 0..MaxMinute /\ requests \in [Days -> 0..ImageLimit]

\* Identical searches of a host are paid for once: one question at a time.
OneQuestion ==
    \A s, t \in Searches :
        /\ s # t /\ Topic(s) = Topic(t)
        /\ question[s].pc \notin {"new", "joined", "done"}
        => question[t].pc \in {"new", "joined", "done"}

\* No search waits for a question nobody asks.
JoinedIsAnswered ==
    \A s \in Searches : question[s].pc = "joined" => asking[Topic(s)] # Nobody

\* Identical searches share one question, which answers them all.
QuestionsShared == OneQuestion /\ JoinedIsAnswered

\* Text leaves a host only while its sharing is on, a screenshot only while the
\* sharing of images is: consent withdrawn at any point before is respected,
\* whichever settings the question and its provider began with.
ConsentKept ==
    [][\A s \in Searches : question'[s].pc # question[s].pc =>
          /\ question'[s].pc = "textSent" => settings.ready
          /\ question'[s].pc = "imageSent" => settings.ready /\ settings.images]_decisionVars

\* Nothing is sent that the user does not share at that moment, and a question
\* that is sent serves all who ask the same.
SentUnderConsent == ConsentKept /\ []QuestionsShared

\* The provider a host has kept can serve the settings it is taken for.
KeptProviderServes ==
    \A h \in Hosts : settings.ready /\ Fitting(h, "text") => CanSend(slot[h])
=============================================================================
