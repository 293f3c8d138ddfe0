----------------------------- MODULE MCLifecycle -----------------------------
\* Two upstreams, built-in and third-party types.
EXTENDS Lifecycle

File(kind, upstreams, sink) == [kind |-> kind, upstreams |-> upstreams, sink |-> sink]

MCContents ==
    {File("good", <<<<"a", "stdio">>>>, "noop"),
     File("good", <<<<"a", "stdio">>, <<"b", "other">>>>, "http"),
     File("good", <<>>, "other")}
    \cup {File(k, <<<<"a", "http">>>>, "noop") : k \in Kinds \ {"good"}}

Plugin == <<<<"upstream", "other">>, <<"sink", "other">>>>
Override == <<<<"upstream", "http">>>>
\* pyproject.toml:44-50: the entry points of the proxy itself.
Own == <<<<"upstream", "stdio">>, <<"upstream", "http">>, <<"sink", "http">>, <<"sink", "noop">>>>

MCInstalled == {<<>>, Plugin, Override}
MCOwn == {Own}
==============================================================================
