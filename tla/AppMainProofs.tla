--------------------------- MODULE AppMainProofs ---------------------------
(***************************************************************************)
(* What the proofs about every program need of the calls that main() and   *)
(* the exit tasks post to the shards.                                      *)
(***************************************************************************)
EXTENDS AppMain, Integers, SequenceTheorems, TLAPS

(***************************************************************************)
(* The calls posted to a shard: at most one of main() and one of the hook. *)
(***************************************************************************)
Mails == {<<>>, <<"main">>, <<"exit">>, <<"main", "exit">>, <<"exit", "main">>}

MainPosted(s) == mail[s] \in {<<"main">>, <<"main", "exit">>, <<"exit", "main">>}
ExitPosted(s) == mail[s] \in {<<"exit">>, <<"main", "exit">>, <<"exit", "main">>}

LEMMA AppendToOne == ASSUME NEW x, NEW y PROVE Append(<<x>>, y) = <<x, y>>
<1> DEFINE s == Append(<<x>>, y)
           t == <<x, y>>
<1>1. s \in Seq({x, y}) /\ t \in Seq({x, y})
  OBVIOUS
<1>2. Len(s) = 2 /\ Len(t) = 2
  OBVIOUS
<1>3. s[1] = t[1] /\ s[2] = t[2]
  OBVIOUS
<1>4. \A i \in 1..Len(s) : s[i] = t[i]
  <2> HIDE DEF s, t
  <2> QED
    BY <1>2, <1>3
<1>5. s = t
  <2> HIDE DEF s, t
  <2> QED
    BY <1>1, <1>2, <1>4, SeqEqual
<1> QED
  BY <1>5

LEMMA HeadsAndTails ==
  /\ Head(<<"main">>) = "main" /\ Head(<<"main", "exit">>) = "main"
  /\ Head(<<"exit">>) = "exit" /\ Head(<<"exit", "main">>) = "exit"
  /\ Tail(<<"main">>) = <<>> /\ Tail(<<"main", "exit">>) = <<"exit">>
  /\ Tail(<<"exit">>) = <<>> /\ Tail(<<"exit", "main">>) = <<"main">>
  OBVIOUS

LEMMA MailsDiffer ==
  /\ <<>> \notin {<<"main">>, <<"exit">>, <<"main", "exit">>, <<"exit", "main">>}
  /\ <<"main">> \notin {<<"exit">>, <<"main", "exit">>, <<"exit", "main">>}
  /\ <<"exit">> \notin {<<"main", "exit">>, <<"exit", "main">>}
  /\ <<"main", "exit">> # <<"exit", "main">>
  OBVIOUS

\* Starting the call of main() takes it from the mail of that shard alone.
LEMMA DeliverMain ==
  ASSUME mail \in [Shards -> Mails], NEW s \in Shards, Deliver(s, "main")
  PROVE  /\ mail' \in [Shards -> Mails]
         /\ MainPosted(s) /\ ~MainPosted(s)'
         /\ (ExitPosted(s)' <=> ExitPosted(s))
         /\ \A r \in Shards \ {s} : (MainPosted(r)' <=> MainPosted(r)) /\ (ExitPosted(r)' <=> ExitPosted(r))
<1>1. mail[s] \in {<<"main">>, <<"main", "exit">>}
  BY HeadsAndTails DEF Deliver, Mails
<1>2. mail'[s] = Tail(mail[s]) /\ \A r \in Shards \ {s} : mail'[r] = mail[r]
  BY DEF Deliver
<1>3. mail'[s] = IF mail[s] = <<"main">> THEN <<>> ELSE <<"exit">>
  BY <1>1, <1>2, HeadsAndTails, MailsDiffer
<1>4. mail' \in [Shards -> Mails]
  BY <1>2, <1>3 DEF Deliver, Mails
<1> QED
  BY <1>1, <1>2, <1>3, <1>4, MailsDiffer DEF MainPosted, ExitPosted

\* So does starting the call of the hook.
LEMMA DeliverExit ==
  ASSUME mail \in [Shards -> Mails], NEW s \in Shards, Deliver(s, "exit")
  PROVE  /\ mail' \in [Shards -> Mails]
         /\ ExitPosted(s) /\ ~ExitPosted(s)'
         /\ (MainPosted(s)' <=> MainPosted(s))
         /\ \A r \in Shards \ {s} : (MainPosted(r)' <=> MainPosted(r)) /\ (ExitPosted(r)' <=> ExitPosted(r))
<1>1. mail[s] \in {<<"exit">>, <<"exit", "main">>}
  BY HeadsAndTails DEF Deliver, Mails
<1>2. mail'[s] = Tail(mail[s]) /\ \A r \in Shards \ {s} : mail'[r] = mail[r]
  BY DEF Deliver
<1>3. mail'[s] = IF mail[s] = <<"exit">> THEN <<>> ELSE <<"main">>
  BY <1>1, <1>2, HeadsAndTails, MailsDiffer
<1>4. mail' \in [Shards -> Mails]
  BY <1>2, <1>3 DEF Deliver, Mails
<1> QED
  BY <1>1, <1>2, <1>3, <1>4, MailsDiffer DEF MainPosted, ExitPosted

\* Posting a call of main() puts one into every mail that has none.
LEMMA PostMain ==
  ASSUME mail \in [Shards -> Mails], \A s \in Shards : ~MainPosted(s), Post("main")
  PROVE  /\ mail' \in [Shards -> Mails]
         /\ \A s \in Shards : MainPosted(s)' /\ (ExitPosted(s)' <=> ExitPosted(s))
<1>1. \A s \in Shards : mail[s] \in {<<>>, <<"exit">>}
  BY DEF Mails, MainPosted
<1>2. Append(<<>>, "main") = <<"main">> /\ Append(<<"exit">>, "main") = <<"exit", "main">>
  BY AppendToOne
<1>3. \A s \in Shards : mail'[s] = IF mail[s] = <<>> THEN <<"main">> ELSE <<"exit", "main">>
  BY <1>1, <1>2, MailsDiffer DEF Post
<1>4. mail' \in [Shards -> Mails]
  BY <1>3 DEF Post, Mails
<1> QED
  BY <1>1, <1>3, <1>4, MailsDiffer DEF MainPosted, ExitPosted

LEMMA PostExit ==
  ASSUME mail \in [Shards -> Mails], \A s \in Shards : ~ExitPosted(s), Post("exit")
  PROVE  /\ mail' \in [Shards -> Mails]
         /\ \A s \in Shards : ExitPosted(s)' /\ (MainPosted(s)' <=> MainPosted(s))
<1>1. \A s \in Shards : mail[s] \in {<<>>, <<"main">>}
  BY DEF Mails, ExitPosted
<1>2. Append(<<>>, "exit") = <<"exit">> /\ Append(<<"main">>, "exit") = <<"main", "exit">>
  BY AppendToOne
<1>3. \A s \in Shards : mail'[s] = IF mail[s] = <<>> THEN <<"exit">> ELSE <<"main", "exit">>
  BY <1>1, <1>2, MailsDiffer DEF Post
<1>4. mail' \in [Shards -> Mails]
  BY <1>3 DEF Post, Mails
<1> QED
  BY <1>1, <1>3, <1>4, MailsDiffer DEF MainPosted, ExitPosted

LEMMA KeepMail ==
  ASSUME UNCHANGED mail
  PROVE  \A s \in Shards : (MainPosted(s)' <=> MainPosted(s)) /\ (ExitPosted(s)' <=> ExitPosted(s))
  BY DEF MainPosted, ExitPosted

\* main() waits for every shard it has a call in the mail of, and the hook
\* has posted its calls only if it has run.
CallsAreAwaited ==
  \A s \in Shards :
    /\ MainPosted(s) => s \in mainWait
    /\ ExitPosted(s) => exit # "idle"

-----------------------------------------------------------------------------
(***************************************************************************)
(* The order of the calls posted to a shard.                               *)
(***************************************************************************)
HookFirst(s) == mail[s] = <<"exit", "main">>

LEMMA MainStarts ==
  ASSUME mail \in [Shards -> Mails], NEW s \in Shards, Deliver(s, "main")
  PROVE  /\ ~HookFirst(s) /\ ~HookFirst(s)'
         /\ \A r \in Shards \ {s} : HookFirst(r)' <=> HookFirst(r)
<1>1. mail[s] \in {<<"main">>, <<"main", "exit">>}
  BY HeadsAndTails DEF Deliver, Mails
<1>2. mail'[s] = Tail(mail[s]) /\ \A r \in Shards \ {s} : mail'[r] = mail[r]
  BY DEF Deliver
<1> QED
  BY <1>1, <1>2, HeadsAndTails, MailsDiffer DEF HookFirst

LEMMA HookStarts ==
  ASSUME mail \in [Shards -> Mails], NEW s \in Shards, Deliver(s, "exit")
  PROVE  /\ (MainPosted(s) => HookFirst(s)) /\ ~HookFirst(s)' /\ ~ExitPosted(s)'
         /\ \A r \in Shards \ {s} : (HookFirst(r)' <=> HookFirst(r)) /\ (ExitPosted(r)' <=> ExitPosted(r))
<1>1. mail[s] \in {<<"exit">>, <<"exit", "main">>}
  BY HeadsAndTails DEF Deliver, Mails
<1>2. mail'[s] = Tail(mail[s]) /\ \A r \in Shards \ {s} : mail'[r] = mail[r]
  BY DEF Deliver
<1> QED
  BY <1>1, <1>2, HeadsAndTails, MailsDiffer DEF HookFirst, MainPosted, ExitPosted

LEMMA MainPosts ==
  ASSUME mail \in [Shards -> Mails], \A s \in Shards : ~MainPosted(s), Post("main")
  PROVE  \A s \in Shards : (HookFirst(s)' <=> ExitPosted(s)) /\ (ExitPosted(s)' <=> ExitPosted(s))
<1>1. \A s \in Shards : mail[s] \in {<<>>, <<"exit">>}
  BY DEF Mails, MainPosted
<1>2. Append(<<>>, "main") = <<"main">> /\ Append(<<"exit">>, "main") = <<"exit", "main">>
  BY AppendToOne
<1>3. \A s \in Shards : mail'[s] = IF mail[s] = <<>> THEN <<"main">> ELSE <<"exit", "main">>
  BY <1>1, <1>2, MailsDiffer DEF Post
<1> QED
  BY <1>1, <1>3, MailsDiffer DEF HookFirst, ExitPosted

LEMMA HookPosts ==
  ASSUME mail \in [Shards -> Mails], \A s \in Shards : ~ExitPosted(s), Post("exit")
  PROVE  \A s \in Shards : ~HookFirst(s)' /\ ~HookFirst(s) /\ ExitPosted(s)'
<1>1. \A s \in Shards : mail[s] \in {<<>>, <<"main">>}
  BY DEF Mails, ExitPosted
<1>2. Append(<<>>, "exit") = <<"exit">> /\ Append(<<"main">>, "exit") = <<"main", "exit">>
  BY AppendToOne
<1>3. \A s \in Shards : mail'[s] = IF mail[s] = <<>> THEN <<"exit">> ELSE <<"main", "exit">>
  BY <1>1, <1>2, MailsDiffer DEF Post
<1> QED
  BY <1>1, <1>3, MailsDiffer DEF HookFirst, ExitPosted

LEMMA OrderKept ==
  ASSUME UNCHANGED mail
  PROVE  \A s \in Shards : HookFirst(s)' <=> HookFirst(s)
  BY DEF HookFirst
=============================================================================
