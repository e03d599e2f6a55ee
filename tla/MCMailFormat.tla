---------------------------- MODULE MCMailFormat ----------------------------
EXTENDS MailFormat

\* Keys and addresses: an identity of every type, in either format.
Address(f, t) ==
  [format |-> f, type |-> t,
   key |-> CASE t = "P256" -> 1 [] t = "P521" -> 2 [] t = "X25519" -> 3 [] OTHER -> 4]
Identity(name, f, t) ==
  [name |-> name, format |-> f, type |-> t,
   key |-> CASE t = "P256" -> 1 [] t = "P521" -> 2 [] t = "X25519" -> 3 [] OTHER -> 4]

MCOwnFile == <<Identity("bad", "v0", "X25519"), Identity("p256", "v0", "P256"),
               Identity("p521", "v1", "P521"), Identity("x25519", "v1", "X25519")>>
MCPeerFile == <<Identity("p256", "v1", "P256"), Identity("p521", "v0", "P521"),
                Identity("x25519", "v1", "X25519"), Identity("odd", "v1", "unknown")>>
MCContacts == <<[alias |-> "", name |-> "n0", dest |-> Address("v0", "P521")],
                [alias |-> "a1", name |-> "n1", dest |-> Address("v0", "P256")],
                [alias |-> "a2", name |-> "n2", dest |-> Address("v1", "X25519")]>>

\* Recipients: by alias, by name only, and by address.
MCTo ==
  {[label |-> "n1", alias |-> "a1", mailbox |-> Address("v0", "malformed")],
   [label |-> "n9", alias |-> "a2", mailbox |-> Address("v0", "malformed")],
   [label |-> "n1", alias |-> "a9", mailbox |-> Address("v0", "malformed")]}
  \cup {[label |-> "n9", alias |-> "a9", mailbox |-> Address(f, t)] :
          f \in {"v0", "v1"}, t \in KeyTypes \cup {"unknown", "malformed"}}

\* Sizes around the parts, and one mail of eleven parts.
MCMails ==
  [size : 1 .. 2 * PartSize + 1, fromFirst : BOOLEAN,
   from : {"bad", "p256", "p521", "x25519"}, to : MCTo]
  \cup [size : {10 * PartSize}, fromFirst : {TRUE}, from : {"p256"},
        to : {[label |-> "n9", alias |-> "a1", mailbox |-> Address("v0", "malformed")]}]
=============================================================================
