---------------------------- MODULE WalletStore ----------------------------
(***************************************************************************)
(* The wallet files and `wallet init` (internal/cli/wallet.go and          *)
(* internal/wallet).  Several processes may run commands over the same     *)
(* two files; each may be killed between any two steps.  A secret is a     *)
(* private key (single) or a mnemonic (multi).                             *)
(***************************************************************************)
EXTENDS Integers, Sequences

CONSTANTS
  Procs,    \* processes of the program
  Secrets,  \* private keys and mnemonics
  None

ASSUME NoneAssumption == None \notin Secrets

Kinds == {"single", "multi"}
Contents == [state : {"absent", "torn", "whole"}, secret : Secrets \cup {None}]
Absent == [state |-> "absent", secret |-> None]
Torn == [state |-> "torn", secret |-> None]
Whole(s) == [state |-> "whole", secret |-> s]

VARIABLES
  file,     \* what main.keystore (single) and mnemonic.enc (multi) hold
  known,    \* secrets the user holds outside the program
  told,     \* secrets whose address the user was told, or is mining for
  givenUp,  \* secrets overwritten after the user agreed to it, or by an init that had looked
            \* for the file before they were saved in it
  pc,       \* where each process is
  loc       \* its local variables

storeVars == <<file, known, told, givenUp>>

\* The locals of a process that has just been started.
NewLocals(cmd, cfg) ==
  [cmd |-> cmd, cfg |-> cfg, kind |-> "single", new |-> FALSE, secret |-> None,
   looked |-> None, agreed |-> FALSE, key |-> "none", count |-> 0, open |-> {}, defers |-> <<>>]

Goto(p, l) == pc' = [pc EXCEPT ![p] = l]

\* The process ends, and with it what it had in memory.
Quit(p) == Goto(p, "idle") /\ loc' = [loc EXCEPT ![p] = NewLocals("init", None)]
InitLabels == {"stat", "overwrite", "secret", "show", "count", "pass", "write", "writing", "tell"}

\* A secret that crypto.GenerateKey or bip39.NewEntropy may return: nobody has seen it.
Unused(s) ==
  /\ s \notin known \cup told \cup givenUp
  /\ \A k \in Kinds : file[k].secret # s
  /\ \A q \in Procs : loc[q].secret # s

-----------------------------------------------------------------------------
(* wallet init. *)

\* mutant: a file that exists is not asked about
StatUnasked(p) ==
  /\ pc[p] = "stat"
  /\ Goto(p, "secret")
  /\ loc' = [loc EXCEPT ![p].looked = file[loc[p].kind].secret]
  /\ UNCHANGED storeVars

Stat(p) ==
  /\ pc[p] = "stat"
  /\ Goto(p, IF file[loc[p].kind].state = "absent" THEN "secret" ELSE "overwrite")
  /\ loc' = [loc EXCEPT ![p].looked = file[loc[p].kind].secret]
  /\ UNCHANGED storeVars

\* The default, and the end of the input, are No.
Overwrite(p) ==
  /\ pc[p] = "overwrite"
  /\ \/ Quit(p)
     \/ Goto(p, "secret") /\ loc' = [loc EXCEPT ![p].agreed = TRUE]
  /\ UNCHANGED storeVars

TakeSecret(p, s) == loc' = [loc EXCEPT ![p].secret = s]

\* A pasted key is parsed only after the passphrase (None stands for one that is not a key).
ImportKey(p) ==
  /\ pc[p] = "secret" /\ loc[p].kind = "single" /\ ~loc[p].new
  /\ \/ Quit(p) /\ UNCHANGED known
     \/ /\ \E s \in Secrets \cup {None} :
             TakeSecret(p, s) /\ known' = known \cup ({s} \ {None})
        /\ Goto(p, "pass")
  /\ UNCHANGED <<file, told, givenUp>>

GenerateKey(p) ==
  /\ pc[p] = "secret" /\ loc[p].kind = "single" /\ loc[p].new
  /\ \E s \in Secrets : Unused(s) /\ TakeSecret(p, s)
  /\ Goto(p, "pass")
  /\ UNCHANGED storeVars

ImportMnemonic(p) ==
  /\ pc[p] = "secret" /\ loc[p].kind = "multi" /\ ~loc[p].new
  /\ \/ Quit(p) /\ UNCHANGED known
     \/ \E s \in Secrets : TakeSecret(p, s) /\ known' = known \cup {s} /\ Goto(p, "count")
  /\ UNCHANGED <<file, told, givenUp>>

GenerateMnemonic(p) ==
  /\ pc[p] = "secret" /\ loc[p].kind = "multi" /\ loc[p].new
  /\ \E s \in Secrets : Unused(s) /\ TakeSecret(p, s)
  /\ Goto(p, "show")
  /\ UNCHANGED storeVars

\* A new mnemonic is shown before it is saved, and the user confirms to have it.
ShowMnemonic(p) ==
  /\ pc[p] = "show"
  /\ known' = known \cup {loc[p].secret}
  /\ Quit(p) \/ (Goto(p, "count") /\ UNCHANGED loc)
  /\ UNCHANGED <<file, told, givenUp>>

AskCount(p) ==
  /\ pc[p] = "count"
  /\ Quit(p) \/ (Goto(p, "pass") /\ UNCHANGED loc)
  /\ UNCHANGED storeVars

\* Two equal, non-empty passphrases from a terminal, or an error.
PromptPasswordConfirm(p) ==
  /\ pc[p] = "pass"
  /\ Quit(p) \/ (loc[p].secret # None /\ Goto(p, "write") /\ UNCHANGED loc)
  /\ UNCHANGED storeVars

\* What file k held is gone: unasked, only if it is neither what the user agreed to lose nor
\* what came after the look.
Forget(p) ==
  LET old == {file[loc[p].kind].secret} \ {None} IN
  givenUp' = givenUp \cup {s \in old : loc[p].agreed \/ s # loc[p].looked}

\* os.WriteFile opens the file in place and truncates it...
Truncate(p) ==
  /\ pc[p] = "write"
  /\ \/ Quit(p) /\ UNCHANGED <<file, givenUp>>
     \/ /\ file' = [file EXCEPT ![loc[p].kind] = Torn]
        /\ Forget(p)
        /\ Goto(p, "writing") /\ UNCHANGED loc
  /\ UNCHANGED <<known, told>>

\* ... and writes it, wholly or, when the disk is full, in part.  Over what another init
\* has written in between, the result may be a mixture.
WriteOut(p) ==
  LET k == loc[p].kind  new == Whole(loc[p].secret) IN
  /\ pc[p] = "writing"
  /\ \/ Quit(p) /\ file' = [file EXCEPT ![k] = Torn]
     \/ /\ Goto(p, "tell") /\ UNCHANGED loc
        /\ \E c \in {new} \cup (IF file[k] = Torn THEN {} ELSE {Torn}) :
             file' = [file EXCEPT ![k] = c]
  /\ Forget(p)
  /\ UNCHANGED <<known, told>>

\* Addresses are printed after the save, and with them the key, if it is a new one.
TellKeystore(p) ==
  /\ pc[p] = "tell" /\ loc[p].kind = "single"
  /\ told' = told \cup {loc[p].secret}
  /\ known' = known \cup (IF loc[p].new THEN {loc[p].secret} ELSE {})
  /\ Quit(p)
  /\ UNCHANGED <<file, givenUp>>

\* The accounts are derived only now, which may fail.
TellMnemonic(p) ==
  /\ pc[p] = "tell" /\ loc[p].kind = "multi"
  /\ told' \in {told, told \cup {loc[p].secret}}
  /\ Quit(p)
  /\ UNCHANGED <<file, known, givenUp>>

InitStep(p) ==
  \/ Stat(p) \/ Overwrite(p) \/ ImportKey(p) \/ GenerateKey(p) \/ ImportMnemonic(p)
  \/ GenerateMnemonic(p) \/ ShowMnemonic(p) \/ AskCount(p) \/ PromptPasswordConfirm(p)
  \/ Truncate(p) \/ WriteOut(p) \/ TellKeystore(p) \/ TellMnemonic(p)

=============================================================================
