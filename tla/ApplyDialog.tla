----------------------------- MODULE ApplyDialog -----------------------------
(***************************************************************************)
(* The dialog that applies a vulnerability to a domain (ApplyModal): a     *)
(* vulnerability is picked, then its target domain and its parameters.     *)
(* One of them depends on the target and is filled in for the user: the    *)
(* distinguished name, spelled from the name the page shows for the        *)
(* domain.  The target is kept as an id; the name is kept as it was when   *)
(* it was filled in, whatever the page shows for the id by then.           *)
(*                                                                         *)
(* Its steps take what the page shows: the distinguished name (fqdnToDn)   *)
(* of each domain of the lab, as a function of its id.                     *)
(***************************************************************************)
CONSTANTS
  Targets,   \* ids of domains
  Names,     \* distinguished names
  Typed,     \* any name that a user may type instead
  Unfilled

ASSUME NameAssumption ==
  /\ Unfilled \notin Targets \cup Names
  /\ Typed \notin Names

VARIABLE form

Form ==
  [step   : {"closed", "pick", "configure"},
   sent   : {"no", "yes"},                    \* applyMut.isPending
   domain : Targets \cup {Unfilled},
   dn     : Names \cup {Typed, Unfilled},     \* params.domain_dn
   filled : {"no", "yes"}]    \* history: the name was filled in for the target,
                              \* was not typed over, and has not changed since

Closed == [step |-> "closed", sent |-> "no", domain |-> Unfilled,
           dn |-> Unfilled, filled |-> "no"]

(* The dialog is there for a lab with domains, and starts with one of them. *)
Open(dns) ==
  /\ form.step = "closed"
  /\ \E d \in DOMAIN dns : form' = [Closed EXCEPT !.step = "pick", !.domain = d]

(* What is filled in for the target d: its own name; if the lab has it no   *)
(* more, that of the first domain there is.                                 *)
NamesFor(d, dns) ==
  IF d \in DOMAIN dns THEN {dns[d]}
  ELSE IF DOMAIN dns = {} THEN {Unfilled} ELSE {dns[e] : e \in DOMAIN dns}

(* A vulnerability is picked, and the configuration starts anew.            *)
PickVuln(dns) ==
  /\ form.step = "pick"
  /\ \E n \in NamesFor(form.domain, dns) :
       form' = [form EXCEPT !.step = "configure", !.dn = n,
                            !.filled = IF form.domain \in DOMAIN dns THEN "yes" ELSE "no"]

(* What was filled in is forgotten when a vulnerability is picked again.    *)
Back ==
  /\ form.step = "configure"
  /\ form' = [Closed EXCEPT !.step = "pick", !.sent = form.sent, !.domain = form.domain]

(* Faulty variant: the name is not filled in again.                         *)
ChangeDomain_KeepsName(dns) ==
  /\ form.step = "configure"
  /\ \E d \in DOMAIN dns : form' = [form EXCEPT !.domain = d, !.filled = "yes"]

(* Another target is chosen, and the name follows.                          *)
ChangeDomain(dns) ==
  /\ form.step = "configure"
  /\ \E d \in DOMAIN dns :
       form' = [form EXCEPT !.domain = d, !.dn = dns[d], !.filled = "yes"]

(* The page is told of the lab anew: the form stays as it is.  Its target   *)
(* may be gone by now, or another domain may have its id.                   *)
Relisted(old, new) ==
  LET d == form.domain
      same == d \in DOMAIN old /\ d \in DOMAIN new /\ old[d] = new[d]
  IN  form' = [form EXCEPT !.filled = IF same THEN @ ELSE "no"]

(* Something is typed over the name, or it is cleared.                      *)
SetName ==
  /\ form.step = "configure"
  /\ \E n \in {Typed, Unfilled} : form' = [form EXCEPT !.dn = n, !.filled = "no"]

(* Everything is filled in; the target is the one that was chosen, be it in *)
(* the lab by now or not.                                                   *)
Submit ==
  /\ form.step = "configure" /\ form.sent = "no"
  /\ form.dn # Unfilled
  /\ form' = [form EXCEPT !.sent = "yes"]

(* An error leaves the dialog as it is; otherwise it is closed.             *)
Answered ==
  /\ form.sent = "yes"
  /\ form' \in {Closed, [form EXCEPT !.sent = "no"]}

(* The user closes it, or the late answer to one that was closed before.    *)
Close ==
  /\ form.step # "closed"
  /\ form' = Closed

=============================================================================
