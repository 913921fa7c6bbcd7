# Tambouille in TLA+

Tambouille is a community site for mixes: a NestJS backend over PostgreSQL
(Prisma) and Cloudflare R2, and a Vue 3 frontend. One Node process serves the
API; several handlers run in it at once and interleave at every `await`. In the
browser, answers come back to pages that have moved on. Beside both, scripts
are run by hand and a deployment replaces the files under a running process.

This directory models the parts where that interleaving, a failing remote
service, a restart or a limit can break something that a unit test would
hardly reach. Everything is translated from the code; what lives outside the
repository (the Flarum forum, PostgreSQL, the realm of the club, the widgets of
Mixcloud and SoundCloud, the clock, the process supervisor) is modelled from
how the code uses it, and marked external in `PROJECT.json`, which gives for
every definition the lines it stands for.

Paths below are relative to `src/backend/src`, `src/frontend/src` or
`src/deploy`.

## Inventory

| Component | State it keeps | Operations | What is hard |
|---|---|---|---|
| Proof of possession (`incongrues/incongrues.verification.service.ts`) | four `incongrues*` columns per user, in-memory debounce | demanderJeton, verifier, delier | rows read before a forum search and written after it, take-over of lapsed claims, debounce |
| Forum synchronisation (`incongrues/incongrues.sync.service.ts`, `imports/flarum.client.ts`) | `enCours` map, two debounces, the mixes table | ring (webhook), hourly net, work on one account | overlapping passes, misattributing forum, twins, lost rings, one failure among several accounts |
| Password reset (`auth/password-reset.service.ts`) | `password_reset_tokens`, user password, detached deliveries | forgot, reset | check-then-act before a slow hash, row locks and deadlocks, roll-backs |
| Recovery budgets (same file, `SlidingWindow`) | a JavaScript Map bounded to 10 000 keys | tryConsume | eviction order, sweeping, the ceiling |
| Accounts and sign-in (`auth/auth.service.ts`) | user rows: email, username, password, two provider subjects | register, login, Google and Keycloak login and link, setUsername, setPassword | case-insensitive pre-checks against case-sensitive indexes, conditional updates, provider answers |
| Mix catalogue and media (`mixes/mixes.service.ts`, `common/upload.utils.ts`, `users/users.service.ts`) | mixes, slugs, objects in R2 | create, update, remove, import, pictures, account deletion | objects stored before rows and deleted after them, concurrent updates, free slugs |
| Suggestions and plays (`mixes/mixes.service.ts`) | play history | registerPlay, listSuggestions | a ranking made of queries the catalogue moves between |
| Playlists (`playlists/playlists.service.ts`) | playlists and positions | create, update, remove, addMix, removeMix | a position read before it is used |
| Comments (`comments/comments.service.ts`) | comments, one level of replies | create, remove, cascades | checks on a parent that goes before the insertion |
| Veille (`veille/veille.service.ts`, `veille.resolver.ts`) | watched sources, cached items, `fetchedAt` | getFeed, addSource, updateSource, removeSource | refresh in flight while sources change, a cap counted before a slow resolution |
| Outgoing requests (`common/safe-fetch.ts`, `imports/`, `mixcloud/`) | none between calls | exchanges, redirections, size cap, deadline | a host that stalls after its headers, chains of hops |
| Feeds, previews, sitemap (`feeds/`, `seo/`) | none; readers keep addresses and copies | read-only documents, ETags | addresses that outlive names, changes an ETag does not see |
| Editorial issues (`content/fournees.ts`, `useFournee.ts`, `feeds/fournees.reader.ts`) | Markdown files, read twice by two parsers | banner of the day, feed of an issue | two readings of one file, bundle and directory replaced one after the other |
| Backfill scripts (`scripts/`) | what they listed | five walks over rows or objects | rows that move after they were listed, a run cut and started again |
| Player (`components/PlayerBar.vue`, `stores/player.ts`) | current mix, three playback engines | play, toggle, seek, change of mix | widgets that load late and answer for the previous mix |
| Session (`stores/auth.ts`, `api/keycloak.ts`, router, callback and login views) | token, profile, round-trip state in sessionStorage | login, logout, callback, guard, link by card | pages destroyed and reopened in the middle of a round trip |
| Navigation veil (`composables/useTransitionDePage.ts`) | four timers, a count of images | cover, announce, settle, lift | navigations that start again, images that never settle |
| Toggles (`utils/favorites.ts`, `utils/follows.ts`, `utils/playlists.ts`) | optimistic flag, count and list | toggle, roll-back | failures and reloads that cross |
| Views (`views/*.vue`, `components/Comments*.vue`) | what they keep of the answers | searching, a mix, a playlist, comments, publishing, settings | answers in any order, components reused from one address to the next |
| Deployment (`.cpanel.yml`, `o2switch-deploy.sh`) | release directories, lock, schema | deploy, migrate by hand | a script cut half-way, a process reloaded at any time |

The hazards of each component, at their lines, are in `PROJECT.json`
("hazards"), with the properties that cover each one.

## Modules

| Module | Role | Checked by | Proved in |
|---|---|---|---|
| `IncongruesLink` | proof of possession | `services`, `verified` | `IncongruesLinkProofs` |
| `IncongruesSync` | forum synchronisation | `sync`, `sync_live`, `sync_twins`, `sync_reached` | `IncongruesSyncProofs` |
| `ResetKeys` | abstract: single-use keys that open an account | through `PasswordReset` | |
| `PasswordReset` | `reset` and `forgot` with row locks; implements `ResetKeys` | `reset` | `PasswordResetProofs` |
| `Filtres` | `Array.filter`, written so that it can be reasoned about | through the next one and `Fournees` | `ServicesProofs` |
| `SlidingWindow` | the bounded request budget | `services`, `window_touched` | `ServicesProofs` |
| `Accounts` | every way into an account, over one users table | `accounts` | `AccountsProofs` |
| `Medias` | rows and the objects of the bucket they name | `medias` | `MediasProofs` |
| `Slugs` | the address of a mix inside its account | `site` | `DeploiementProofs` |
| `Suggestions` | what follows a mix | `site` | `ServicesProofs` |
| `Playlists` | positions of a playlist | `services` | `ServicesProofs` |
| `Comments` | comments and their replies | `services` | `ServicesProofs` |
| `Veille` | watched sources and their cache | `services` | `ServicesProofs` |
| `Outgoing` | every chain of requests the server sends | `services` | `ServicesProofs` |
| `Publications` | feeds, previews and sitemap, with their readers | `site` | `ServicesProofs` |
| `Fournees` | the issue of the day and its feed | `site` | `ServicesProofs` |
| `Reprises` | the two scripts that repair pages and headers | `site` | `DeploiementProofs` |
| `Deploiement` | the deployment script and the schema | `site` | `DeploiementProofs` |
| `Player` | the bar that plays | `site` | `FrontendProofs` |
| `Session` | one tab, its token and its round trips | `site` | `FrontendProofs` |
| `Volet` | the veil that covers a navigation | `site` | `FrontendProofs` |
| `Recherche` | the Discover page and the search of the header | `site` | `FrontendProofs` |
| `Pages` | the page of a mix | `site`, `page` | `FrontendProofs` |
| `Depot` | the publishing form | `site` | `FrontendProofs` |
| `Bascules` | favourite, follow, in-playlist toggles | `site` | `FrontendProofs` |
| `PagePlaylist` | the page of a playlist | `site` | `FrontendProofs` |
| `Reglages` | the settings page | `site` | `FrontendProofs` |
| `Fil` | the comments under a mix and their count | `site` | `FrontendProofs` |

The components meet through the database, which each module holds the part of
that its guards read; where two of them write the same rows (the sync and the
proof of possession, media and account deletion, comments and the removal of a
mix, the announced issue and its feed, the toggles and their server) the module
has both sides. What remains is disjoint, so that `MCServices` and `MCSite`
put several components in one run without multiplying their states: a variable
`partie` names the component a behaviour moves, and the others keep one of
their initial states (one only, in `MCSite`, whose VIEW tells two states apart by
the variables of the component that moves). `MCSyncInstances` and `MCAccounts`
likewise choose between two instances of the same specification
(`INSTANCE ... WITH`), one wide in one constant and one in another.

### IncongruesLink

`compte[u]` is the row: pseudo, token, its date, whether it is verified. A
request record holds what a handler has read (`lu`, `profil`, `messages`,
`ecrire` for verifier, `reprise`, `reposer` for demanderJeton). Each await is
an action: `DemanderJeton` is the first update and, on a unique violation, hands
over to `Reprise` (the conditional `updateMany`) and `Reposer`. `Verifier` reads
the row, `Autoriser` tests expiry and debounce and arms the latter (no await in
between, hence one action), `LireProfil` and `LireMessages` are the two
searches, `EcrireVerification` the last write. `Delier` empties the row.
`Publier`, `RemplirProfil`, `Supprimer` are what members do on the forum, quoted
posts included; the forum answers `LireMessages` with any subset of its posts.
Tokens are drawn fresh (48 random bits). Pseudos are identities: that the
database compares them with their case and the code without it is not modelled.

### IncongruesSync

A pass (`passe[k]`) is the ring or the hourly net; it reads the recent authors
(ring only), the verified accounts, then takes the accounts one at a time. The
order of the accounts is any order, and each is decided when the pass reaches
it. `SyncUser` joins the work another pass has registered in `enCours` or
registers its own; the steps of `faire` follow, one per await: `Lister`,
`PremierControle` (page only), `EstBienDe` (second read by id), `Importer`,
`SecondControle` (player too), `CreateFromImport` (cover download, then insert).
`Ecarter` is the per-discussion `try`: any of these awaits may fail or refuse.
`Terminer` is the `finally` that removes the promise and resumes the waiters.
The forum may list any discussions, those of others included, and may leave
some out. Around the passes, members claim (`Revendiquer`), verify (`Chercher`,
`Marquer`: the stale last write of IncongruesLink), unlink, publish by hand,
edit and delete mixes. A discussion keeps its address; account deletion and the
unique slug only make an insertion fail, which `Ecarter` covers.

### PasswordReset and ResetKeys

`reset` reads the token row and hashes (`Lire`), then runs a transaction of
three statements. `Consommer` takes the lock of its token or finds it used
(count 0, roll-back); `Poser` locks the user row; `Invalider` fixes the set of
rows the third statement will visit, `Viser` and `Balayer` visit them, waiting
for those another transaction holds and re-evaluating `usedAt IS NULL` when
they are woken up; `Valider` commits everything at once. `Expirer` and
`Redemarrer` roll back; `Victime` is PostgreSQL's deadlock detector. `forgot`
commits a row and hands it to a mailer nobody awaits (`Remettre` may lose it).
Its budgets are the next module.

`ResetKeys` says what the feature promises: a key is minted once, spent at most
once, and spending one changes the password of its own account and may void
other live keys of that account only. `PasswordReset` implements it under the
mapping `etat`/`titre`/`secret` at the end of the module.

### SlidingWindow

The Map is a sequence of entries, in insertion order; what a filter leaves of it
or of its dates is an operator of `Filtres`, a recursive function instead of the
`SelectSeq` it equals, because a proof by induction needs its definition. `TryConsume` is one step
(no await): the sweep when it is due or the Map is full, the pruning, then
acceptance at the end of the Map or refusal in place. `acceptes` is a history
of accepted dates that eviction at the ceiling resets, since the code gives the
budget back to an evicted key on purpose.

### Accounts

The users table is `compte`: address, username, who knows the password, and
the subject of each provider. An address and a username are a pair, what they
are without their case and how they are spelled: lookups compare the first
component, unique indexes both. A handler in flight is a record of what it has
read; `Register`/`ControlerNom`/`Inscrire`, `LoginWith`/`ControlerAdresse`/
`CreerLie`, `Link`/`EcrireLien`, `SetUsername`/`ControlerChoix`/`EcrireNom` and
`SetPassword`/`EcrireSecret` are its awaits. Two reads that decide nothing
about each other are one action: `LoginWith` is the lookup of the subject and,
when a row carries it, the session; `Login` is one action because a token that
has been issued stays valid whatever happens to the row. A provider's token is
any subject with any address, but it says `email_verified` only for the
holder's own mailbox (`Identite`). Registration verifies no address, so anyone
may register the mailbox of somebody else, and its owner may later take that
account by `Reset`: `SessionsOwned` exempts exactly this. The two providers
share their actions, `e` telling them apart where the code differs (only
`linkGoogle` asks that the address be verified). Running out of fresh keys
(`Comptes`) is a failed insertion.

### Medias

A row of a mix and a row of an account are both a `cible` with one image
column; a key of the bucket is a number drawn once. A request puts its files
while multer reads them (`DeposerAudio`, `DeposerImage`, `RefuserFichier`),
then goes through its checks and its writes (`Controler`, `Pochette`,
`Inserer`; `LireMix`, `EcrireMix`, `SupprimerLigne`; `LireCompte`,
`EcrireImage`), then deletes what the row it read named (`EffacerAnciens`,
whose failures are silent). `backfill-webp` and `backfill-variantes` walk the
rows they listed in the same table, `SupprimerCompte` cascades in the database
only, and `Interrompre` stops any of them. An update writes the two halves of a
source together and may empty its page (`SourceEcrite`). The history `perdus` has the objects
left behind for a reason the code gives; a leak of any other kind violates
`NothingElseLeaks`.

### Slugs

`EssayerSlug` is one `findFirst`, `InsererMix` the insertion the unique index may
refuse. The rows older than the column are given theirs by `backfill-slugs`
(`LancerReprise`, `PoserSlug` in order of creation, `CouperReprise`), between the
two migrations (`Fermer` is the second), while members create, rename and
delete. The slugs of one account are numbers and the candidates of two titles
may meet.

### Suggestions

`listSuggestions` query by query: the mix on display, the visitor's listens,
the co-listeners, the ranking, three fallbacks, the rows. Between two of them
members listen (`Ecouter`, the upsert of `registerPlay`), publish and delete.

### Playlists and Comments

`addMix` is four statements: owner, mix, last position, upsert (`Demander`,
`LireMorceau`, `LireDerniere`, `Ajouter`). The other handlers check the owner
and write. `create` of a comment reads the mix and the parent, then inserts
(`LireSet`, `LireParent`, `InsererCommentaire`). In both, mixes and accounts are
deleted with their cascades at any moment.

### Veille and Outgoing

A visit reads the rows (`LireSources`), keeps the stale ones (`Juger`) and
refreshes each on its own: the stamp (`Marquer`), the site (`Obtenir`), the
outcome (`Consigner`), each write swallowed when it fails. `addSource` counts,
resolves and inserts. Time stands still while a stamp is on its way.

`Outgoing` is what such a resolution, an import or a cover does on the network:
an exchange has headers, then a body, under one timer (`Avorter` fires it);
redirections are followed by hand, bodies are capped, and what a parser finds
leads to another exchange or to the answer (`Suites`). The Mixcloud relay
follows no redirection.

### Publications and Fournees

`Publications` has the feeds of the site, of a member and of a playlist, the
previews and the sitemap, as the queries each is made of, and one reader who
keeps an address and a copy (`lien`, `copie`) while names are chosen, titles and
sources corrected, mixes and accounts deleted. `Mene` is where an address leads
today.

`Fournees` has the two readings of an issue: `OuvrirAccueil` and `RepondreRef`
on the site (whose bundle is `paquet`), `DemanderFlux` and `ServirFlux` in the
feed (whose directory is `dossier`), and the deployment that replaces one, then
the other.

### Reprises and Deploiement

`Reprises` is `backfill-source-page-urls` (`Lister`, `ChercherPage`,
`PoserPage`) and `backfill-cache-control` (`PartirEnTournee`, `LireEnTetes`,
`PoserEnTete`), each beside the members who change the rows and objects it has
listed, stopped anywhere and run again.

`Deploiement` is the script line by line (`ControlerSchema`, `Enlever` and
`Recopier` for each directory, `CopierVerrou`, `ActiverNode`, `InstallerNpm`,
`Redemarrer`), a person who runs the migrations on disk (`Migrer`), a process
reloaded at any time (`Recharger`) and a script cut anywhere (`CouperScript`).

### Player

A run that brings a widget up is named by the frame it was started for
(`courses`): the script arrives, the widget is awaited with a limit, started,
its duration asked for. A change of mix starts a new frame and nothing stops the
old run, which finds out at its next step, or does not. The `<audio>` element
and the two widgets answer in their own time. `hasUserActivation()`, which the
bar asks before it starts anything, is taken as true: `play`, `playAt` and
`toggle` are only called by a click.

### Session

One tab. `ecran` is the page, or the realm; leaving for the realm, coming back,
reloading and the history destroy the page and keep `sessionStorage` (`tampon`,
`enSuspens`). `ParLaCarte` and `Assigner` are the departure, with the digest of
the verifier awaited in between; `Revenir` the callback, `JetonArrive` the
exchange of the code, then sign-in, link or creation. The reader may move
within the site while the exchange is under way (`Aller`), even back to a
callback already used (`Remonter`): it goes on, and takes the reader from
wherever that is when it ends. `/auth/me` answers whenever it likes, for the
token it was sent with.

### Volet

Four timers (`minuteries`, in ticks), the images announced and not there
(`enAttente`), components that announce, settle and go at their own pace, and
navigations that start again (`Couvrir`, `Taire`). A timer that is due fires
before time goes on.

### Recherche, Pages, PagePlaylist, Fil, Reglages

Each keeps what the page shows, the requests in flight and, for the last three,
what the server holds. `Recherche` has the four controls of the Discover page,
each with the request it sends, and the header. `Pages` has the loads of a mix
in their stages, the address rewritten by the answer, and what a page that was
left still awaits: the mix of a load, which may rewrite the next address, and a
deletion, which ends on the home page wherever the reader is (`laissees`). Its
history `trouble` says that loads have crossed or one has failed since the last
that started alone. `PagePlaylist` has the
mix taken out before the server agrees and put back when it refuses. `Fil` has
the list of comments, which may arrive or fail while a comment is being posted
(`FilArrive`, `FilEchoue`), and the count that `MixDetailView` moves by what each
change announces. `Reglages` has the copy of the account that answers complete
or replace, and the watched sources edited in place. Their histories (`croisees`,
`heurtes`, `ecartee`) name the crossings after which the code leaves the page
wrong until the next load; the properties say that there are no others.

### Depot and Bascules

`Depot` is the publishing form: reading an address, importing, looking for a
twin, the choice of where the audio stays, sending. `Bascules` has the three
toggles, at once on screen and put back when refused, beside reloads; only the
button of a profile waits for its answer.

## Runs and bounds

| Run | Instance | Shows |
|---|---|---|
| `services` | 2 accounts, 1 pseudo, 2 tokens, 2 handlers, clock to 2; 3 keys, limit 2, window 2, 3 tracked keys, sweep every 4 calls, clock to 5; 3 rows, 3 addresses, 2 visits, 2 additions, cap 1, TTL 2, clock to 2; deadline 2, 3 redirections, 10 ticks; 1 playlist, 3 mixes, 2 requests, positions to 3; 2 mixes, 2 authors, 3 comments, 2 requests | `ProofStands`, `SearchesSpaced`, `BudgetHeld`, `CacheCloses`, `SourceCap`, `SettledByDeadline`, `InsertionOrder`, `OneLevelThreads` |
| `verified` (violation) | 2 accounts, 2 pseudos, 2 tokens, 1 handler | a pseudo becomes verified without proof |
| `sync` | 1 account, 2 passes; 2 pseudos, 1 discussion, 1 mix; then 1 pseudo, 2 discussions with one player, 2 mixes | `OnlyOwnDiscussions`, `OneCopyPerAccount` |
| `sync_live` | 1 of each, 2 passes, fairness | `EveryPassEnds`, `NetCatches` |
| `sync_twins` (violation) | 1 pass, 2 mixes | a twin of a mix published by hand |
| `sync_reached` (violation) | 2 accounts, 1 pass | one account aborts the ring for the others |
| `reset` | 2 accounts, 3 links, 2 handlers, clock to 1, fairness | `NoOlderKeySurvives`, `ImplementsKeys`, `EveryResetAnswers` |
| `window_touched` (violation) | as the budgets of `services` | insertion order does not follow refused calls |
| `accounts` | Keycloak, 2 accounts, 2 handlers; 2 people; then 1 person with 2 spellings, 2 identities, 2 passwords | `SessionsOwned`, `TwinsOverlapped`, `SubjectSticks`, `ChosenOnce` |
| `medias` | 1 mix, 1 account, 2 requests or scripts, 3 keys, 1 of them stored before the conversion | `NoDeadMedia`, `ExactlyOneSource`, `NothingElseLeaks` |
| `site` | below | one property per part |
| `page` (violation) | `site`, the page of a mix | a late answer shows the mix of an address that was left |

| Part of `site` | Instance | Property |
|---|---|---|
| addresses | 3 rows, 2 of them old, 2 titles that meet, 1 creation, 3 numberings | `OldestKeepsPlainAddress` |
| suggestions | 4 mixes, 2 sharing a tag, 2 accounts, 2 places | `HeardOnlyAsLastResort` |
| player | 2 files, 2 Mixcloud, 1 SoundCloud, 3 changes of mix | `WishKept`, `NoClaimBeforeSound` |
| session | 2 accounts and one to create, 2 departures | `CardLeavesOnce` |
| veil | rise 4, grace 2, longest 14, exit 6, 2 covers, 3 images | `VeilLifts` |
| searching | 1 text, 2 pages, 2 requests | `LastAskedIsWanted` |
| a mix | 2 mixes, 2 loads | `AtRestShownIsAsked` |
| publishing | 2 broadcasts | `KeptSourceHasNoFile` |
| toggles | a favourite and a profile, 2 requests | `ShownIsHeld` |
| a playlist | 2 playlists (2 mixes, none), 2 requests | `PlaylistShownIsHeld` |
| settings | 2 names, 2 keys, 1 source with 2 labels, 2 requests | `SettingsAreHeld` |
| comments | 4 identifiers, 2 requests | `CountFollowsThread` |
| deployment | 2 versions, the second with 2 migrations more | `SchemaFirst` |
| scripts | 2 rows among 5 references; 3 objects, limit 2; 1 change by a member | `RunLeavesThemDone` |
| issues | 2 versions with overlapping issues, drafts, repetitions, a spoilt file; 3 mixes, 2 days, 1 change | `BannerAndFeedAgree` |
| documents | 2 accounts, 1 name, 1 slug, 3 mixes, feeds of 2, 2 changes | `WhatIsHeldStaysGood` |

The clock bounds exceed every delay by one tick, so that each deadline is met,
missed and missed by one; the veil counts in tenths of a second, its
exit rounded up. One request is enough where the hazard is an operation
of somebody else landing between two steps of a handler; two where two handlers
meet, which is what all these hazards need; two tokens are what a change of
mind needs. The caps are reached and overrun: three keys against a map of three
that a fourth call sweeps, additions against a cap of one, four candidates for
two places, three redirections, a numbering that runs out. Where a bound cuts
something off (`MaxPosition`, `MaxCadres`, `MaxActes`, `NbCles`...), it is a
conjunct of the guards and stated with its constant. What three handlers or
larger tables would add is covered by the theorems where there is one.
Symmetry is used in safety runs only.

Deadlock checking is off except in `medias`: clocks stop at their horizon, a
bounded history ends, and members are free to do nothing. `EveryPassEnds` and
`EveryResetAnswers` are the real statements that nothing stays stuck.

## Fairness

* `PasswordReset!FairSpec`: strong fairness of the steps of each reset.
  PostgreSQL answers a statement whose row is free, queues the waiters of a row
  in order, and runs its deadlock detector; bcrypt terminates.
* `IncongruesSync!FairSpec`: weak fairness of each pass, whose awaits all settle
  (`safe-fetch` times out, statements answer); strong fairness of starting the
  net (visits keep coming, and a pass slot becomes free again and again) and
  weak fairness of the hour that passes. `NetCatches` assumes on top, inside the
  property, that from some day on the forum answers truthfully and the process
  stays up.

Two other promises of the code that something ends are stated as bounds on
time, which need no fairness: `SettledByDeadline` and `VeilLifts` count ticks,
and a timer that is due fires before time goes on.

## Disagreements found

* `verified`: `verifier` writes by id what it established for a row it read
  seconds before; the schema says that only a token found on the forum proves a
  pseudo.
* `sync_reached`: a row left verified without pseudo (an unlink followed by that
  same write) throws outside the per-account `try` of the ring, against the
  comment on that `try`.
* `sync_twins`: `findBySource` is called the real guarantee, but a cover
  download separates it from the insert and no index backs it.
* `window_touched`: the comment on the Map's order holds for accepted calls
  only.
* `page`: the watcher of the page of a mix was written so that an earlier mix
  would no longer be shown under a new address; the answer of an earlier load,
  coming last, still shows it there, and nothing corrects it
  (`AtRestShownIsAsked` is what holds without such a crossing).

`ProofStands` and `OnlyOwnDiscussions` are what remains true despite the first:
the former exempts, by the history variable `devance`, the accounts whose last
verification was overtaken.

Smaller ones, met while reading and modelled as the code has them:

* `veille.service.ts:94` speaks of a cap of eight sources; the constant is ten,
  and additions that cross go past it (`SourceCap` says by how much).
* The Discover page declares `/?q=` as the search of the site
  (`DiscoverView.vue:75`), and when it is opened there it shows the text and loads
  the sections of the home page: the watcher of the text is not immediate
  (`DiscoverView.vue:303`).
* A load of a mix that fails leaves the mix before on display under the new
  address, and one that its page has left still rewrites the address of the
  next (`VisiteEchoue`, `OrphelineArrive`).
* `FavoriteButton.vue:41-42` says that a failure puts the count and the flag
  back as they were; when clicks overlap it puts back what it found, and the
  button may be wrong until the next load (`croises`).
* `content/fournees.ts:248-252` wants a choice that does not depend on the order
  of the files; of two issues that begin on the same day the code keeps the
  first it meets. Nothing checks that numbers are distinct, and the site shows
  in their window the drafts whose feed is a 404.
* `preview.service.ts:77-78` says names are matched whatever their case, as
  everywhere; the member feeds and profiles match them exactly.
* An enclosure that a feed has given becomes a 404 when the source of its mix is
  corrected into a player that has no file (`Retoucher`).
* A comment posted while the list loads may be shown twice, or be in the list and
  still unanswered; deleting it then moves the count wrongly (`ecartee`).
* `PlayerBar.vue` stops saying that a SoundCloud mix loads as soon as its widget
  is ready, and a Mixcloud one when it is heard (`NoClaimBeforeSound` is about
  the latter).

## What is proved

The theorems hold for every value of the constants under the assumptions named
in the modules that declare them (`NoneAssumption`, `TimeAssumption`,
`VeilleAssumption`...), which the runs evaluate on their instances.

* `IncongruesLinkProofs`: `LinkTypeOK`; `LinkSafe`, by the strengthening
  `LinkInv`. A verification is right if the token in the row was issued to that
  account for that pseudo (`RowsIssued`), a handler carries such a token
  (`ReadsIssued`), what it found was published (`FoundPublished`), and the forum
  shows only what was published (`ForumPublished`). `LinkSearchesSpaced` follows
  from the debounce map being at least as late as every search under way.
* `PasswordResetProofs`: `ResetTypeOK`; `ResetSafe` and `ResetNoOlderKey`, by
  `ResetInv`: who is in a transaction holds its token and held rows are unused
  (`LocksHeld`), and every row the third statement has passed is used or held by
  it (`ScanCovers`). `ResetImplementsKeys` is the refinement of `ResetKeys`,
  step by step, from the same invariant.
* `IncongruesSyncProofs`: `SyncTypeOK`; `SyncSafe`, `SyncOwnOnly` and
  `SyncOwnAndOnce`, by
  `SyncInv`: passes carry only pseudos the account was verified for
  (`PseudosHeld`), confirm the author before importing (`AuthorConfirmed`), are
  the registered work of their account (`WorkIsRegistered`), and are about to
  create something that is not there yet (`CreationIsNew`).
* `AccountsProofs`: `AccountsTypeOK`, by `TypeInv` (a handler has the columns
  its step reads, `HandlersFilled`); `AccountsSessionsOwned`, by `OwnInv`: the
  password and the identities of a row are its creator's or those of a person
  who reset it through its mailbox (`RowsOwned`), and a handler only writes
  those of the person it serves, to an account that person has opened
  (`HandlersServed`). `AccountsSubjectSticks` adds that the unique index keeps
  rows apart and that what an identity opened still carries it (`StickInv`).
  `AccountsTwinsOverlapped` follows what each handler's lookup saw: those
  accounts do not have, and cannot get, the address or name looked up
  (`HandlersSeen`, `HistorySeen`). `AccountsChosenOnce` is an action property;
  all five rest on keys of rows being used once.
* `ServicesProofs`: `OneLevelThreadsAlways`. What a request has checked of a
  parent stays true of it while it exists, because a comment never changes its
  mix or its parent and its identifier is never given again
  (`ParentStillFits`, `DrawnFirst`). `InsertionOrderAlways`: what was in the
  playlist when an addition began, and has not left, is still where it was
  (`SeenStay`), so that the last position the request reads is at least theirs
  (`ReadLast`), and the order holds when it inserts (`Ordered`).
  `SourceCapAlways`: the rows alone go past the cap one addition at a time; the
  rows together with the additions that have passed the count never do by more
  than the additions there may be (`RowsAndAdditions`). `CacheClosesAlways`: the
  stamp of a row is the last request recorded for it while the row exists
  (`StampIsLast`), and a visit that reads the row reads that instant
  (`HoldsLast`). `SettledByDeadlineAlways`: what a call has waited leaves room
  for a whole deadline for each exchange that can still come (`LeavesRoom`), as
  many as the graph of exchanges has below the one in progress (`Rang`).
  `HeardOnlyAsLastResortAlways`: after the level by date either there is no room
  or every mix not heard that was there from the beginning is kept (`AllKept`).
  `WhatIsHeldStaysGoodAlways`: what an address was given for, it is never given
  again (`Tient`), and a copy is fresh when both queries of the sitemap have read
  since the last change (`EnLecture`).
  `BudgetHeldAlways`: the history of a key and its entry of the Map are filtered
  by different windows at different times, and say the same of the one that is
  open (`SameBudget`); it needs that a filter of a filter is the narrower one,
  and that the dates of an entry are in order, since the sweep only looks at the
  last (`BonneMap`).
  `BannerAndFeedAgreeAlways`: a reading that is still a witness of the catalogue
  has what the catalogue has (`Fidele`, `Servi`), and dropping the repetitions
  before asking for the mixes, or after, leaves the same (`RepetitionThenFilter`).
* `MediasProofs`: `MediasTyped`; `NoDeadMediaAlways`, by `KeysInv`: a key is
  drawn once, held by the request that put it until one row names it, and named
  by no other row afterwards, so that what a request read some awaits ago can
  only be named by the row it read (`Owned`), and what it is about to delete by
  none (`Sound`, `HandsApart`). `NothingElseLeaksAlways` and
  `ExactlyOneSourceAlways`, by `RowsInv`: what a request may hold at each step
  (`Stage`), and that the audio read before an update is still the row's
  (`Read`).
* `DeploiementProofs`: `SchemaFirstAlways`. The comparison made at the head of
  the script still holds when the directories are copied, because no other
  version is pulled meanwhile and the base only gains migrations
  (`ChecksHold`). `OldestKeepsPlainAddressAlways`: there is one numbering of the
  rows passed so far which every run has followed, those cut and those whose
  update failed included (`Suivie`). `RunLeavesThemDoneAlways`: what was listed
  and not touched since is still to do as it was listed, or done
  (`PassesInv`, `TourneesInv`).
* `FrontendProofs`: `VeilLiftsAlways`, by what the timers say of the age of the
  veil in each of its phases (`RiseRuns`, `LongestRuns`, `ExitRuns`);
  `KeptSourceHasNoFileAlways`, by `DepotInv`; `CardLeavesOnceAlways`, because
  the code of a departure that is still to be shown was never shown
  (`CodesFresh`); `ShownIsHeldAlways`, by `BasculesInv`: an object nothing
  crossed has one request at most, whose state tells the server from the screen
  (`Suivie`), and a reload under way has seen none (`Concorde`).
  `WishKeptAlways` and `NoClaimBeforeSoundAlways`: only the run of the frame in
  the page brings its widget up (`RunBeforeWidget`), and a Mixcloud widget is
  silent before (`SilentBefore`). `AtRestShownIsAskedAlways`, by `PagesInv`:
  without trouble one load at most is under way, that of the address, and what
  it has brought so far is of it (`Saine`). `LastAskedIsWantedAlways` follows
  from the types of the controls.
  `SettingsAreHeldAlways`: for each source, what the page shows, what the server
  holds and the last label agreed on are tied by the requests under way
  (`SourcesInv`); the account differs from the server's by one answer that has
  not arrived (`CompteInv`). `PlaylistShownIsHeldAlways`: while nothing crossed
  there is one request at most, and `ListeInv` has what each kind still owes to
  the screen. `CountFollowsThreadAlways`: the number counts what the page shows
  and what the base has, less what was written and not answered (`Comptees`),
  and what both have is in the same place (`FilAccorde`).

Sequences that a filter makes are reasoned about by least counterexample: the
library's induction theorems take an operator, which no prover here can give
them, but the order of the naturals is well founded over any set, so that
`EveryNumber` takes the set of the numbers a fact holds of instead. Facts about a
filter are then facts about the sets of places it keeps.

The proofs changed the models where these were wrong or said too little. In
`Fil`, three requests were enough for the count to be wrong after a comment was
written while the list was being read, which two requests never show: the
crossing is now part of `ecartee`. In `Reglages` two branches of a CASE
overlapped, and the property is false if a page may hold no request at all
(`EnTete`). What the proofs need of the constants is in the assumptions: values
that stand for absence are none of the others (`Medias`, `Reprises`, `Fil`,
`Fournees`), kinds of mixes do not overlap (`Player`), what members, mixes and
files are is finite or a sequence (`Publications`, `Suggestions`, `Fournees`).

Only model-checked: liveness (`EveryPassEnds`, `NetCatches`,
`EveryResetAnswers`), which is out of the prover's reach. Every other property of
the passing runs is the property of a theorem.

## Plan

What is written covers the plan of the first version of this document. Next:

1. Refinements to prove as `ResetKeys` is: an abstract catalogue that `Medias`
   implements, and an abstract list that the optimistic pages (`Bascules`,
   `PagePlaylist`, `Fil`, `Reglages`) implement while nothing crosses.
2. A composition of `Slugs` and `Publications`, in which addresses by slug meet
   the numbering, and one of `Player` with the page that starts it.
3. Names and pseudos compared with and without their case in
   `IncongruesLink` and `Publications`, as `Accounts` has them.

## Not modelled

* **Mail** is a transport without state; `PasswordReset` has the ways a delivery
  may end. **Application bootstrap** only wires modules together.
* Data without control: the writing of XML, HTML and RSS, pixel work, the text
  the parsers read, titles, tags and tracklists, the lists that are read for
  display, `updateProfile`, which writes one row at once.
* Decisions of one call, taken as inputs where they matter: the secret of the
  webhook, token signatures (`Identite` says what an accepted token may claim),
  which addresses are public, `callerIdentity`.
* In the frontend: volume, seeking by hand and the waveform, drag-and-drop, the
  upload to Mixcloud, menus, and the views that load once and show.
* The pipeline that runs tests and merges branches, outside the server.
