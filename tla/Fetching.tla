------------------------------ MODULE Fetching -------------------------------
(***************************************************************************)
(* The fetchers and the LLM client: which adapter serves a source, which   *)
(* of its URLs it reads, what a limit leaves of them, and what counts as   *)
(* an answer. Pure; the HTTP exchange is outside, so a URL is a record of  *)
(* what it would answer: its kind and the files behind it (the members of  *)
(* an archive, the one body otherwise).                                    *)
(*                                                                         *)
(* An operator named ...Bug is a plausible slip in the one it precedes,    *)
(* used only to show which property notices.                               *)
(***************************************************************************)
EXTENDS Lists, SequencesExt

(* In the order a composition root hands them to the ingest service: the   *)
(* server's, and those of the command line, which wires fewer and not the  *)
(* same for ingest and for extraction. The stub supports every source, so  *)
(* some fetcher always does.                                               *)
ServerFetchers == <<"httpfetch", "scrapefetch", "apifetch", "stubfetcher">>

CommandFetchers == [ingest |-> <<"httpfetch", "scrapefetch", "stubfetcher">>,
                    extract |-> <<"httpfetch", "stubfetcher">>]

MethodOf == [httpfetch |-> "direct-download", apifetch |-> "api", scrapefetch |-> "scrape-html"]

Supports(f, source) == f = "stubfetcher" \/ MethodOf[f] = source.method

FetcherFor(fetchers, source) == fetchers[Min({k \in DOMAIN fetchers : Supports(fetchers[k], source)})]

-----------------------------------------------------------------------------
(* The URLs an adapter reads: data files, JSON endpoints, every page.      *)

DataUrls(urls) == Picked(urls, {k \in DOMAIN urls : urls[k].kind \in {"zip", "csv", "tsv", "json"}})

ApiUrls(urls) == Picked(urls, {k \in DOMAIN urls : urls[k].kind \in {"json", "json-query"}})

UrlsFor(f, urls) ==
    CASE f = "httpfetch"   -> DataUrls(urls)
      [] f = "apifetch"    -> ApiUrls(urls)
      [] f = "scrapefetch" -> urls
      [] f = "stubfetcher" -> <<>>

(* Directories of an archive are not members. *)
Members(url) ==
    IF url.kind = "zip" THEN Picked(url.files, {k \in DOMAIN url.files : ~url.files[k].dir}) ELSE url.files

(* What the first n URLs bring. *)
Brought(urls, n) == FlattenSeq([k \in 1..n |-> Members(urls[k])])

(* URLs are read until the limit is met; the last archive is cut short.    *)
Reached(urls, n) == Len(Brought(urls, n))

Stops(urls, limit) == {n \in 1..Len(urls) : Reached(urls, n) >= limit}

(* Whatever fills the limit exactly is complete. *)
FetchedBug(fetchers, source, limit) ==
    LET urls == UrlsFor(FetcherFor(fetchers, source), source.urls)
        all  == Brought(urls, Len(urls))
        stop == CHOOSE n \in Stops(urls, limit) : \A m \in Stops(urls, limit) : n <= m
    IN  IF limit <= 0 \/ Stops(urls, limit) = {}
        THEN [items |-> all, partial |-> FALSE]
        ELSE [items |-> SubSeq(all, 1, limit), partial |-> Reached(urls, stop) > limit]

Fetched(fetchers, source, limit) ==
    LET urls == UrlsFor(FetcherFor(fetchers, source), source.urls)
        all  == Brought(urls, Len(urls))
        stop == CHOOSE n \in Stops(urls, limit) : \A m \in Stops(urls, limit) : n <= m
    IN  IF limit <= 0 \/ Stops(urls, limit) = {}
        THEN [items |-> all, partial |-> FALSE]
        ELSE [items |-> SubSeq(all, 1, limit),
              partial |-> Reached(urls, stop) > limit \/ stop < Len(urls)]

-----------------------------------------------------------------------------
(* openaicompat: what of an HTTP answer is a completion. A content that is *)
(* there but empty counts, one that is missing does not.                   *)
Completion(answer) ==
    IF answer.status \notin 200..299 THEN [err |-> "backend"]
    ELSE IF ~answer.json \/ answer.choices = <<>> THEN [err |-> "invalid response"]
    ELSE IF ~answer.choices[1].present THEN [err |-> "invalid response"]
    ELSE [err |-> "", content |-> answer.choices[1].content]

(* The clamp hook, which only a server has: a request that names no cap, or a higher  *)
(* one, gets the server's; a model that is not allowed is refused.         *)
Clamped(tokens, cap) == IF cap > 0 /\ (tokens <= 0 \/ tokens > cap) THEN cap ELSE tokens

Allowed(model, allowed) == allowed = {} \/ model \in allowed
=============================================================================
