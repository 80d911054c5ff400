------------------------------ MODULE SealedLog ------------------------------
(***************************************************************************)
(* What `nucleo seal` and `nucleo erase` promise to whoever calls them,     *)
(* without processes, reads or retries: a log that only grows, a content    *)
(* table written together with the entry that needs it, an idempotency key  *)
(* that is spent once, and content that only goes away in the step that     *)
(* logs its suppression.  Module Sealing is the program; its refinement     *)
(* mapping to this module is at the end of Sealing.tla.                     *)
(***************************************************************************)
EXTENDS Naturals, Sequences

CONSTANTS
  Tenants,    \* issuers sharing the ledger file
  Payloads,   \* contents, one per payload_hash
  OnceKeys,   \* idempotency keys that may be spent only once
  AnyKey,     \* every value an entry may carry as a key
  NoTenant    \* nobody's copy of a content is stored

VARIABLES
  log,        \* what has been sealed, in order
  content     \* for each payload, the tenant whose encrypted copy is stored

vars == <<log, content>>

\* kind tells a sealed document from a suppression event.
Entry == [kind: {"document", "suppression"}, tenant: Tenants,
          payload: Payloads, key: AnyKey]

Spent(e) == \E i \in DOMAIN log : log[i].kind = "document"
                                  /\ log[i].tenant = e.tenant /\ log[i].key = e.key

Init == log = << >> /\ content = [h \in Payloads |-> NoTenant]

\* One document is sealed; its content may be stored with it, under its own
\* tenant, and never over another tenant's copy.
Put(e) ==
  /\ e.kind = "document"
  /\ e.key \in OnceKeys => ~Spent(e)
  /\ log' = Append(log, e)
  /\ \/ content' = content
     \/ /\ content[e.payload] \in {NoTenant, e.tenant}
        /\ content' = [content EXCEPT ![e.payload] = e.tenant]

\* A suppression names a content that some earlier document sealed.
Suppress(e) ==
  /\ e.kind = "suppression"
  /\ \E i \in DOMAIN log : log[i].kind = "document" /\ log[i].payload = e.payload
  /\ log' = Append(log, e)
  /\ content' \in {content, [content EXCEPT ![e.payload] = NoTenant]}

Next == \E e \in Entry : Put(e) \/ Suppress(e)

Spec == Init /\ [][Next]_vars
=============================================================================
