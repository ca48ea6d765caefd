------------------------------ MODULE RequestBody ------------------------------
(***************************************************************************)
(* What becomes of a request on its way through the middlewares of an      *)
(* inference route: its Content-Type is made to fit its body               *)
(* (contenttype.go), a profile and a selector put another model's name in  *)
(* it (ReplaceRequestModel in swaputil/http.go), the name is kept in the   *)
(* context, and the filters of the model rewrite the body for the upstream *)
(* (filters.go).  net/http parses a form once and keeps what it found.     *)
(***************************************************************************)
EXTENDS FiniteSets, Sequences

CONSTANTS Requests,      \* requests as they come
          Pins,          \* the pins of the active profile
          SelectorOf,    \* what each selector leads to
          RealName,      \* the local model of each ID and alias
          UseModelName,  \* per local model, "" for none
          Filters,       \* per local model or peer's model: strip, set, byID
          Exposed        \* tailcat.models

VARIABLES came,     \* the request as it came
          req,      \* the request as it is
          bodyAt,   \* the middleware that is next, "sent" or "refused"
          named,    \* the name in it when the profile is applied
          ctxModel, \* data.Model of the context
          checked   \* the name ServeTailcatHTTP has checked

bodyVars == <<came, req, bodyAt, named, ctxModel, checked>>

NoName == ""
Failed == "error"
Unparsed == "unparsed"
Protected == {"model"}
Has(f, k) == k \in DOMAIN f
Put(f, k, v) == [x \in DOMAIN f \cup {k} |-> IF x = k THEN v ELSE f[x]]
Field(r) == IF Has(r.body, "model") THEN r.body.model ELSE NoName
FirstOf(a, b) == IF a # NoName THEN a ELSE b

-----------------------------------------------------------------------------
\* extractContext.  A form that is parsed is not parsed again; a query is part
\* of it, before the fields of a multipart body and after those of another.
Parsed(r) ==
  CASE r.ctype = "multipart" -> IF r.is = "multipart" THEN FirstOf(r.query, Field(r)) ELSE Failed
    [] r.ctype = "form" /\ r.is = "form" -> FirstOf(Field(r), r.query)
    [] OTHER -> r.query

ExtractModel(r) ==
  IF ~r.post THEN r.query
  ELSE IF r.size = "over" THEN Failed
  ELSE IF r.ctype = "json" THEN IF r.is = "json" THEN Field(r) ELSE NoName
  ELSE IF r.form = Unparsed THEN Parsed(r) ELSE r.form

Extracted(r) ==
  IF r.post /\ r.ctype # "json" /\ r.size # "over" /\ ExtractModel(r) # Failed
    THEN [r EXCEPT !.form = ExtractModel(r)] ELSE r

\* ReplaceRequestModel, for the name that ExtractModel has just found.
ReplaceAnywhere(r, name) ==
  IF ~r.post THEN [r EXCEPT !.query = name]
  ELSE CASE r.ctype = "json" -> [r EXCEPT !.body = Put(@, "model", name)]
         [] r.ctype = "multipart" -> [r EXCEPT !.form = Unparsed,
                                               !.body = IF Has(@, "model") THEN Put(@, "model", name) ELSE @]
         [] OTHER -> [r EXCEPT !.is = "form",
                               !.body = Put(IF r.ctype = "form" THEN @ ELSE <<>>, "model", name)]
\* Mutant: a multipart form that was parsed is kept.
ReplaceKeepsForm(r, name) ==
  IF r.post /\ r.ctype = "multipart" /\ Has(r.body, "model")
    THEN [r EXCEPT !.body = Put(@, "model", name)] ELSE ReplaceAnywhere(r, name)
ReplaceRequestModel(r, name) == ReplaceAnywhere(r, name)

\* bodyKindForPath and normalizeBodyContentType, or Failed.
Normalizes(r) ==
  IF ~r.post \/ r.ctype = "multipart" \/ (~r.upload /\ r.ctype = "json") THEN "as it is"
  ELSE IF r.size = "over" THEN Failed
  ELSE CASE ~r.upload /\ r.is = "json" -> "json"
         [] r.is = "form" /\ Field(r) # NoName -> "as it is"
         [] OTHER -> Failed

\* prepareModelBody; a declared length is looked at first.
Accepted(r) == r.size # "declared" /\ Normalizes(r) # Failed
Prepared(r) == IF Normalizes(r) = "json" THEN [r EXCEPT !.ctype = "json"] ELSE r

-----------------------------------------------------------------------------
\* SanitizedSetParams: protected keys go, a hard key wins over its soft form.
Sanitized(raw) ==
  [k \in {e[1] : e \in DOMAIN raw} \ Protected |->
     IF Has(raw, <<k, "hard">>) THEN [soft |-> FALSE, value |-> raw[<<k, "hard">>]]
                                ELSE [soft |-> TRUE, value |-> raw[<<k, "soft">>]]]

SetParams(body, params) ==
  [k \in DOMAIN body \cup DOMAIN params |->
     IF Has(params, k) /\ ~(params[k].soft /\ Has(body, k)) THEN params[k].value ELSE body[k]]

StripParams(body, keys) == [k \in DOMAIN body \ (keys \ Protected) |-> body[k]]

\* Local models have a name for the upstream, peers have filters only.
ResolveUseName(name) == IF Has(RealName, name) THEN UseModelName[RealName[name]] ELSE NoName
ResolveFilters(name) ==
  LET m == IF Has(RealName, name) THEN RealName[name] ELSE name
  IN IF Has(Filters, m) THEN Filters[m] ELSE [strip |-> {}, set |-> <<>>, byID |-> <<>>]

ApplyFilters(body, name) ==
  LET f == ResolveFilters(name)
      renamed == IF ResolveUseName(name) # NoName THEN Put(body, "model", ResolveUseName(name)) ELSE body
      set == SetParams(StripParams(renamed, f.strip), Sanitized(f.set))
  IN IF Has(f.byID, name) THEN SetParams(set, Sanitized(f.byID[name])) ELSE set

-----------------------------------------------------------------------------
NoRequest == [post |-> FALSE, upload |-> FALSE, ctype |-> "other", is |-> "empty", body |-> <<>>,
              query |-> NoName, size |-> "fits", tailcat |-> FALSE, form |-> Unparsed]

Init ==
  /\ came = NoRequest /\ req = NoRequest /\ bodyAt = "none"
  /\ named = NoName /\ ctxModel = NoName /\ checked = NoName

Goes(to) == bodyAt' = to

Arrives(r) ==
  /\ bodyAt = "none"
  /\ came' = [r EXCEPT !.form = Unparsed] /\ req' = came'
  /\ Goes(IF r.tailcat THEN "tailcat" ELSE "type")
  /\ UNCHANGED <<named, ctxModel, checked>>

\* ServeTailcatHTTP prepares the body itself.
ServeTailcatHTTP ==
  LET name == ExtractModel(Prepared(req))
  IN /\ bodyAt = "tailcat"
     /\ IF Accepted(req) /\ name # Failed /\ name \in Exposed
          THEN req' = Extracted(Prepared(req)) /\ checked' = name /\ Goes("type")
          ELSE Goes("refused") /\ UNCHANGED <<req, checked>>
     /\ UNCHANGED <<came, named, ctxModel>>

ContentType ==
  /\ bodyAt = "type"
  /\ IF Accepted(req) THEN req' = Prepared(req) /\ Goes("profile") ELSE Goes("refused") /\ UNCHANGED req
  /\ UNCHANGED <<came, named, ctxModel, checked>>

ApplyProfile ==
  LET name == ExtractModel(req)
  IN /\ bodyAt = "profile"
     /\ named' = name
     /\ req' = IF Has(Pins, name) THEN ReplaceRequestModel(Extracted(req), Pins[name]) ELSE Extracted(req)
     /\ Goes("selector")
     /\ UNCHANGED <<came, ctxModel, checked>>

Select ==
  LET name == ExtractModel(req)
  IN /\ bodyAt = "selector"
     /\ req' = IF Has(SelectorOf, name) THEN ReplaceRequestModel(Extracted(req), SelectorOf[name])
                                         ELSE Extracted(req)
     /\ Goes("context")
     /\ UNCHANGED <<came, named, ctxModel, checked>>

RequestContext ==
  LET name == ExtractModel(req)
  IN /\ bodyAt = "context"
     /\ IF name \in {NoName, Failed} THEN Goes("refused") /\ UNCHANGED <<req, ctxModel>>
        ELSE ctxModel' = name /\ req' = Extracted(req) /\ Goes("filter")
     /\ UNCHANGED <<came, named, checked>>

Filter ==
  /\ bodyAt = "filter"
  /\ req' = IF req.ctype = "json" THEN [req EXCEPT !.body = ApplyFilters(@, ctxModel)] ELSE req
  /\ Goes("form")
  /\ UNCHANGED <<came, named, ctxModel, checked>>

\* The name in the context stays the one that was asked for.
FormFilter ==
  /\ bodyAt = "form"
  /\ req' = IF req.ctype = "multipart" /\ ResolveUseName(ctxModel) # NoName /\ ExtractModel(req) = ctxModel
              THEN ReplaceRequestModel(Extracted(req), ResolveUseName(ctxModel)) ELSE req
  /\ Goes("sent")
  /\ UNCHANGED <<came, named, ctxModel, checked>>

Next ==
  \/ (\E r \in Requests : Arrives(r)) \/ ServeTailcatHTTP \/ ContentType \/ ApplyProfile \/ Select
  \/ RequestContext \/ Filter \/ FormFilter

Spec == Init /\ [][Next]_bodyVars

-----------------------------------------------------------------------------
Chosen(name) ==
  LET pinned == IF Has(Pins, name) THEN Pins[name] ELSE name
  IN IF Has(SelectorOf, pinned) THEN SelectorOf[pinned] ELSE pinned

\* ReplaceRequestModel (swaputil/http.go:274) "replaces model with replacement
\* wherever the request encodes its model ID", so that "downstream handlers
\* resolve the replacement normally".
ReplacementsHold == bodyAt = "sent" => ctxModel = Chosen(named)

\* ReplacementsHold for the requests that keep their name in one place and are
\* read anew each time; the others are in the findings.
ReadAnew == ~came.post \/ req.ctype = "json" \/ (req.ctype = "multipart" /\ came.query = NoName)
ReplacementsHoldReadAnew == ReadAnew => ReplacementsHold

\* The upstream gets the name it is configured with, or the name chosen, in
\* whatever format; no filter changes that.
UpstreamGetsName ==
  (bodyAt = "sent" /\ came.post /\ ReadAnew) => Field(req) = FirstOf(ResolveUseName(ctxModel), ctxModel)

\* What a JSON body ends with, key by key: the filters of the model under the
\* name chosen, later ones before earlier ones, soft ones where nothing is.
FiltersCompose ==
  (bodyAt = "sent" /\ req.ctype = "json") =>
    LET f == ResolveFilters(ctxModel)
        byID == IF Has(f.byID, ctxModel) THEN f.byID[ctxModel] ELSE <<>>
        kept == DOMAIN came.body \ f.strip
        value(k) ==
          IF Has(byID, <<k, "hard">>) THEN byID[<<k, "hard">>]
          ELSE IF Has(f.set, <<k, "hard">>) THEN f.set[<<k, "hard">>]
          ELSE IF k \in kept THEN came.body[k]
          ELSE IF Has(f.set, <<k, "soft">>) THEN f.set[<<k, "soft">>]
          ELSE byID[<<k, "soft">>]
        keys == kept \cup {e[1] : e \in DOMAIN byID \cup DOMAIN f.set} 
    IN \A k \in (keys \cup DOMAIN req.body) \ Protected : Has(req.body, k) /\ req.body[k] = value(k)

\* What was checked for a Tailcat client is what the rest of the chain begins
\* with, though the body is prepared and parsed a second time.
TailcatServesChecked ==
  bodyAt \in {"selector", "context", "filter", "form", "sent"} /\ came.tailcat => named = checked

BodiesAreSound == ReplacementsHoldReadAnew /\ UpstreamGetsName /\ FiltersCompose /\ TailcatServesChecked
=============================================================================
