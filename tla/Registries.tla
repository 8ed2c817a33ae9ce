------------------------------ MODULE Registries ------------------------------
(***************************************************************************)
(* The parser registry (src/registry/parser/registry.rs), which maps       *)
(* formats, media types and extensions to parsers, and the provider        *)
(* registry (src/registry/provider.rs), from which a caller selects the    *)
(* providers of a request.                                                 *)
(***************************************************************************)
EXTENDS Integers

CONSTANTS
  Descriptors,  \* parsers: [id, format, aliases, media, extensions, priority, valid]
  Providers,    \* [id, kind, priority, origin, network, isolation, valid]
  Spellings,    \* the ways names are written
  Normal,       \* Normal[namespace][spelling]: the name it stands for
  NoName        \* the empty name

Namespaces == {"format", "media_type", "extension"}
Networks == {"forbidden", "optional", "required"}

ASSUME RegistriesAssumption ==
  /\ \A d \in Descriptors :
       /\ d.format \in Spellings /\ d.priority \in Int
       /\ d.aliases \cup d.media \cup d.extensions \subseteq Spellings
       /\ d.valid \in BOOLEAN
  /\ \A p \in Providers : p.priority \in Int /\ p.network \in Networks /\ p.valid \in BOOLEAN
  /\ Normal \in [Namespaces -> [Spellings -> Spellings \cup {NoName}]]

VARIABLES
  parsers, unavailable, \* registered descriptors
  selectors,            \* claims [namespace, name, format]
  providers,            \* registered providers
  bindings              \* the ProviderSet of a request: [provider, kind, network]

registryVars == <<parsers, unavailable, selectors, providers, bindings>>

RegistryInit ==
  /\ parsers = {} /\ unavailable = {} /\ selectors = {}
  /\ providers = {} /\ bindings = {}

-----------------------------------------------------------------------------
(* Parsers.                                                                *)

FormatOf(d) == Normal["format"][d.format]

Claim(space, spelling, d) ==
  [namespace |-> space, name |-> Normal[space][spelling], format |-> FormatOf(d)]

(* What a registration claims: the format under its own name and aliases.  *)
Claims(d) ==
  {Claim("format", s, d) : s \in {d.format} \cup d.aliases}
    \cup {Claim("media_type", s, d) : s \in d.media}
    \cup {Claim("extension", s, d) : s \in d.extensions}

Clash(c, e) == c.namespace = e.namespace /\ c.name = e.name /\ c.format # e.format

Installable(c, held) == c.name # NoName /\ \A e \in held : ~Clash(c, e)

(* Fault: what can be installed is installed, though the rest cannot.      *)
InstallSelectorsPiecemeal(d) == {c \in Claims(d) : Installable(c, selectors)}

(* install_selectors builds the new indexes aside: all claims or none.     *)
InstallSelectors(d) ==
  IF \A c \in Claims(d) : Installable(c, selectors) THEN Claims(d) ELSE {}

IdTaken(d) == \E e \in parsers \cup unavailable : e.id = d.id

PriorityTaken(d) ==
  \E e \in parsers : FormatOf(e) = FormatOf(d) /\ e.priority = d.priority

(* register_caller and register_builtin. A refused call returns an error   *)
(* and keeps what it installed, which install_selectors sees to.           *)
Register(d) ==
  /\ d.valid /\ ~IdTaken(d) /\ ~PriorityTaken(d)
  /\ selectors' = selectors \cup InstallSelectors(d)
  /\ parsers' = IF \A c \in Claims(d) : Installable(c, selectors)
                THEN parsers \cup {d} ELSE parsers
  /\ UNCHANGED <<unavailable, providers, bindings>>

RegisterUnavailable(d) ==
  /\ d.valid /\ ~IdTaken(d)
  /\ selectors' = selectors \cup InstallSelectors(d)
  /\ unavailable' = IF \A c \in Claims(d) : Installable(c, selectors)
                    THEN unavailable \cup {d} ELSE unavailable
  /\ UNCHANGED <<parsers, providers, bindings>>

(* select_format, select_media_type and select_extension look a name up    *)
(* and take it for a format itself when nobody claims it.                  *)
CanonicalFormats(space, spelling) ==
  LET n == Normal[space][spelling]
      claimed == {c \in selectors : c.namespace = space /\ c.name = n}
  IN  IF claimed = {} THEN {n} ELSE {c.format : c \in claimed}

(* select_canonical: the parsers of the format with the highest priority.  *)
Selected(space, spelling) ==
  LET offered == {d \in parsers : FormatOf(d) \in CanonicalFormats(space, spelling)}
  IN  {d \in offered : \A e \in offered : e.priority <= d.priority}

-----------------------------------------------------------------------------
(* Providers.                                                              *)

(* validate_provider: only a parser backend is isolated, and it must be.   *)
LawfulProvider(p) == p.valid /\ (p.kind = "backend" <=> p.isolation)

RegisterProvider(p) ==
  /\ p.origin = "caller" /\ LawfulProvider(p)
  /\ \A q \in providers : q.id # p.id /\ ~(q.kind = p.kind /\ q.priority = p.priority)
  /\ providers' = providers \cup {p}
  /\ UNCHANGED <<parsers, unavailable, selectors, bindings>>

Permits(policy, access) ==
  /\ policy = "forbidden" => access = "denied"
  /\ policy = "required" => access = "allowed"

(* select_into: bind decides, the set keeps one binding of each kind.      *)
SelectInto(kind, id, access) ==
  \E p \in providers :
    /\ p.id = id /\ p.kind = kind
    /\ Permits(p.network, access)
    /\ bindings' = {b \in bindings : b.kind # kind}
                     \cup {[provider |-> p, kind |-> kind, network |-> access]}
    /\ UNCHANGED <<parsers, unavailable, selectors, providers>>

RegistryNext ==
  \/ \E d \in Descriptors : Register(d) \/ RegisterUnavailable(d)
  \/ \E p \in Providers :
       \/ RegisterProvider(p)
       \/ \E access \in {"allowed", "denied"} : SelectInto(p.kind, p.id, access)

RegistrySpec == RegistryInit /\ [][RegistryNext]_registryVars

-----------------------------------------------------------------------------
(* Properties.                                                             *)

Registered == parsers \cup unavailable

(* The parsers that should answer for a name: those of the format that a   *)
(* registered parser, available or not, claims the name for, or of the     *)
(* format of that name when none does.                                     *)
Meant(space, spelling) ==
  LET n == Normal[space][spelling]
      claimants == {d \in Registered : \E c \in Claims(d) : c.namespace = space /\ c.name = n}
  IN  {d \in parsers : IF claimants = {} THEN FormatOf(d) = n
                       ELSE \E e \in claimants : FormatOf(d) = FormatOf(e)}

(* After any calls, refused ones among them, every name selects the one    *)
(* parser with the highest priority of one format, and none when that      *)
(* format has no parser: a refused registration leaves no name behind that *)
(* leads elsewhere, and no tie is left for the order of a map to decide.   *)
SelectionIsUnambiguous ==
  \A space \in Namespaces, spelling \in Spellings :
    LET meant == Meant(space, spelling) IN
    /\ \A d, e \in meant : FormatOf(d) = FormatOf(e)
    /\ Selected(space, spelling) = {d \in meant : \A e \in meant : e.priority <= d.priority}
    /\ \A d, e \in Selected(space, spelling) : d = e

(* Every provider selected for a request is registered for that kind, the  *)
(* only one of its kind, and on terms of network access that its owner     *)
(* registered it with; a backend is never selected without isolation.      *)
BindingsAreLawful ==
  /\ \A b \in bindings :
       /\ b.provider \in providers /\ b.provider.kind = b.kind
       /\ Permits(b.provider.network, b.network)
       /\ b.kind = "backend" => b.provider.isolation
  /\ \A a, b \in bindings : a.kind = b.kind => a = b
=============================================================================
