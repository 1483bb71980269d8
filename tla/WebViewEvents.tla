---------------------------- MODULE WebViewEvents ----------------------------
(***************************************************************************)
(* How the WebView rules (rules.py, evaluator webview_security) read what  *)
(* the hooks reported: the events of all WebViews in one list, replayed to *)
(* find the moments in which a WebView was exposed.                        *)
(***************************************************************************)
EXTENDS Naturals, FiniteSets

CONSTANTS WebViews, Interfaces, Handlers,
          MaxErrors           \* bound: SSL errors a handler is called for

ASSUME WebViewAssumption == MaxErrors \in Nat

VARIABLES
  view,          \* [WebViews -> what the events said of it last]
  correlated,    \* WebViews with a bridge that remote content could use
  unsafe,        \* WebViews with content that may read files or mix schemes
  callbacks,     \* handlers of SSL errors that are not answered
  proceeds,      \* [Handlers -> proceeds that answered a callback]
  exposed,       \* history: [bridge, content -> WebViews that were exposed so at some moment]
  errors         \* history: [Handlers -> SSL errors raised]

webViewVars == <<view, correlated, unsafe, callbacks, proceeds, exposed, errors>>

\* file_access: access from file URLs, to files or to everything.
Settings == {"javascript", "file_access"}
Origins == {"none", "remote", "file", "other"}
View == [on : SUBSET Settings, mixed : {"unset", "never", "always_allow"}, interfaces : SUBSET Interfaces, origin : Origins]

\* Every WebView the lists name exists, and an SSL error is answered once.
WebViewTypeOK ==
  /\ view \in [WebViews -> View] /\ correlated \subseteq WebViews /\ unsafe \subseteq WebViews /\ exposed \in [{"bridge", "content"} -> SUBSET WebViews]
  /\ callbacks \subseteq Handlers /\ proceeds \in [Handlers -> Nat] /\ errors \in [Handlers -> Nat]

WebViewInit ==
  /\ view = [w \in WebViews |-> [on |-> {}, mixed |-> "unset", interfaces |-> {}, origin |-> "none"]]
  /\ correlated = {} /\ unsafe = {} /\ callbacks = {} /\ exposed = [bridge |-> {}, content |-> {}]
  /\ proceeds = [h \in Handlers |-> 0] /\ errors = [h \in Handlers |-> 0]

Bridged(v) == v.origin = "remote" /\ "javascript" \in v.on /\ v.interfaces # {}
Unsafe(v) ==
  \/ v.origin = "file" /\ "file_access" \in v.on
  \/ v.origin = "remote" /\ v.mixed = "always_allow"

\* Mutation: an interface added to a page that is there already is not looked at.
CorrelateOnLoad(w, v) ==
  /\ correlated' = IF Bridged(v) /\ v.origin # view[w].origin THEN correlated \cup {w} ELSE correlated
  /\ unsafe' = IF Unsafe(v) THEN unsafe \cup {w} ELSE unsafe

\* correlate_active_content
Correlate(w, v) ==
  /\ correlated' = IF Bridged(v) THEN correlated \cup {w} ELSE correlated
  /\ unsafe' = IF Unsafe(v) THEN unsafe \cup {w} ELSE unsafe

Becomes(w, v) ==
  /\ view' = [view EXCEPT ![w] = v]
  /\ exposed' = [bridge |-> exposed.bridge \cup {x \in WebViews : Bridged(view'[x])},
                 content |-> exposed.content \cup {x \in WebViews : Unsafe(view'[x])}]
  /\ UNCHANGED <<callbacks, proceeds, errors>>

Setting(w) ==
  \E setting \in Settings, enabled \in BOOLEAN :
    LET v == [view[w] EXCEPT !.on = IF enabled THEN @ \cup {setting} ELSE @ \ {setting}] IN
    Becomes(w, v) /\ Correlate(w, v)

MixedContent(w) ==
  \E mode \in {"never", "always_allow"} :
    LET v == [view[w] EXCEPT !.mixed = mode] IN Becomes(w, v) /\ Correlate(w, v)

AddInterface(w) ==
  \E i \in Interfaces :
    LET v == [view[w] EXCEPT !.interfaces = @ \cup {i}] IN Becomes(w, v) /\ Correlate(w, v)

\* Nothing is correlated when an interface goes.
RemoveInterface(w) ==
  /\ \E i \in Interfaces : Becomes(w, [view[w] EXCEPT !.interfaces = @ \ {i}])
  /\ UNCHANGED <<correlated, unsafe>>

Load(w) ==
  \E origin \in Origins \ {"none"} :
    LET v == [view[w] EXCEPT !.origin = origin] IN Becomes(w, v) /\ Correlate(w, v)

SslError(h) ==
  /\ errors[h] < MaxErrors
  /\ callbacks' = callbacks \cup {h} /\ errors' = [errors EXCEPT ![h] = @ + 1]
  /\ UNCHANGED <<view, correlated, unsafe, proceeds, exposed>>

\* A proceed without a callback is listed as unmatched and decides nothing.
SslProceed(h) ==
  /\ h \in callbacks /\ callbacks' = callbacks \ {h}
  /\ proceeds' = [proceeds EXCEPT ![h] = @ + 1]
  /\ UNCHANGED <<view, correlated, unsafe, exposed, errors>>

SslCancel(h) ==
  /\ callbacks' = callbacks \ {h}
  /\ UNCHANGED <<view, correlated, unsafe, proceeds, exposed, errors>>

WebViewNext ==
  \/ \E w \in WebViews : Setting(w) \/ MixedContent(w) \/ AddInterface(w) \/ RemoveInterface(w) \/ Load(w)
  \/ \E h \in Handlers : SslError(h) \/ SslProceed(h) \/ SslCancel(h)

WebViewSpec == WebViewInit /\ [][WebViewNext]_webViewVars

(***************************************************************************)
(* Properties                                                              *)
(***************************************************************************)
\* A WebView is reported for its bridge exactly if there was a moment in which it
\* showed remote content, ran JavaScript and had an interface, in whatever order
\* the three came, and not if they were spread over two WebViews or two moments;
\* and likewise for content that may read files or mix schemes.
ExposureIsAMoment == correlated = exposed.bridge /\ unsafe = exposed.content

\* A handler that went on despite an SSL error is counted for errors of its own,
\* once for each, and not after it cancelled.
ProceedsAnswerErrors == \A h \in Handlers : proceeds[h] + (IF h \in callbacks THEN 1 ELSE 0) <= errors[h]

\* What the replay of the events says of WebViews and handlers is what they did.
ReplayTrue == WebViewTypeOK /\ ExposureIsAMoment /\ ProceedsAnswerErrors
=============================================================================
