------------------------------ MODULE Sections ------------------------------
(***************************************************************************)
(* What a frame shows of a calendar and of the forecast: the collection in *)
(* coordinator.py with the caches it falls back on, and normalize_forecast *)
(* of core.py. The first refresh and a requested one may overlap at their  *)
(* awaits, and a reconfiguration may come in between. The calendars of the *)
(* two owners are alike and independent; one stands for both.              *)
(*                                                                         *)
(* Time is in hours of local time and passes between refreshes, which take *)
(* seconds.                                                                *)
(***************************************************************************)
EXTENDS Integers, FiniteSetsExt

CONSTANTS
    Calendars,     \* calendar entities
    Weathers,      \* weather entities
    NoEntity,      \* nothing is configured
    MidRefresh,    \* TRUE: a reconfiguration may come during a refresh
    FirstHour,     \* the hour Home Assistant comes up
    LastHour       \* bound on time

ASSUME SectionsAssumption ==
    /\ NoEntity \notin Calendars \cup Weathers
    /\ MidRefresh \in BOOLEAN
    /\ FirstHour \in Nat
    /\ LastHour \in Nat

VARIABLES
    hour,
    calendar,          \* config[owner_id]
    weather,           \* config["weather_entity"]
    calendarCache,     \* _calendar_raw and _calendar_collected of the owner
    previousForecast,  \* _previous_forecast
    fetches,           \* the refreshes under way
    (* observed *)
    shown,             \* the last snapshot rendered in this hour
    forecastAnswered   \* when, in the last six hours, weather answered

sectionVars == <<hour, calendar, weather, calendarCache, previousForecast,
                 fetches, shown, forecastAnswered>>

Never == -1
KeptFor == 6
DayOf(h) == h \div 24

Fetchers == {"first", "requested"}
NoFetch == [phase |-> "idle", now |-> Never, asked |-> NoEntity, section |-> "none"]

(* An answer of a calendar: whose, and when it was collected. from: the    *)
(* hour it really is of.                                                   *)
Answer(entity, now) == [of |-> entity, at |-> now, from |-> now]
NoAnswer == [of |-> NoEntity, at |-> Never, from |-> Never]

(* A section without values, and one with: collected_at, whose values and  *)
(* from when, and the hours the values are for (of a forecast).            *)
Section(status, at) == [status |-> status, at |-> at, of |-> NoEntity,
                        from |-> Never, slots |-> {}]
Filled(status, answer, slots) ==
    [status |-> status, at |-> answer.at, of |-> answer.of, from |-> answer.from,
     slots |-> slots]
NoSection == Section("none", Never)
NoFrame == [now |-> Never, calendar |-> NoSection, forecast |-> NoSection]

SectionsInit ==
    /\ hour = FirstHour
    /\ calendar \in Calendars \cup {NoEntity}
    /\ weather \in Weathers \cup {NoEntity}
    /\ calendarCache = NoAnswer
    /\ previousForecast = NoSection
    /\ fetches = [f \in Fetchers |-> NoFetch]
    /\ shown = NoFrame
    /\ forecastAnswered = Never

-----------------------------------------------------------------------------
(* Mutant of CalendarSection: collected_at of the cache is that of now.    *)
CalendarSectionAsNew(now, answered) ==
    IF answered # NoAnswer
    THEN IF calendar = NoEntity THEN Section("unconfigured", now)
         ELSE Filled("ok", answered, {})
    ELSE IF /\ calendarCache # NoAnswer
            /\ DayOf(calendarCache.at) = DayOf(now)
            /\ now - calendarCache.at < KeptFor
         THEN [Filled("stale", calendarCache, {}) EXCEPT !.at = now]
         ELSE Section(IF calendar = NoEntity THEN "unconfigured" ELSE "unavailable", now)

(* The calendar's section, from an answer or, when there is none, from the *)
(* cache of the same local day.                                            *)
CalendarSection(now, answered) ==
    IF answered # NoAnswer
    THEN IF calendar = NoEntity THEN Section("unconfigured", now)
         ELSE Filled("ok", answered, {})
    ELSE IF /\ calendarCache # NoAnswer
            /\ DayOf(calendarCache.at) = DayOf(now)
            /\ now - calendarCache.at < KeptFor
         THEN Filled("stale", calendarCache, {})
         ELSE Section(IF calendar = NoEntity THEN "unconfigured" ELSE "unavailable",
                      calendarCache.at)

(* forecast_boundaries: the four hours to come, every third of the day.    *)
Boundaries(now) == {3 * ((now + 2) \div 3 + k) : k \in 0..3}

(* Mutant of StaleForecast: collected_at is that of this refresh.          *)
StaleForecastAsNew(now) ==
    [Filled("stale", previousForecast, previousForecast.slots \cap Boundaries(now))
        EXCEPT !.at = now]

(* The cached values of the hours that are still to come. *)
StaleForecast(now) ==
    Filled("stale", previousForecast, previousForecast.slots \cap Boundaries(now))

(* normalize_forecast; slots: the boundaries answered for, or "failed".    *)
NormalizeForecast(entity, now, reply) ==
    CASE entity = NoEntity -> Section("unconfigured", now)
      [] entity # NoEntity /\ reply = "failed" ->
            IF previousForecast # NoSection /\ now - previousForecast.at < KeptFor
            THEN StaleForecast(now)
            ELSE Section("unavailable", now)
      [] OTHER ->
            IF reply = "empty" THEN Section("unavailable", now)
            ELSE Filled("ok", Answer(entity, now), Boundaries(now))

-----------------------------------------------------------------------------
(* A refresh begins and asks the calendar configured now.                  *)
FetchCalendar(f) ==
    /\ fetches[f].phase = "idle"
    /\ fetches' = [fetches EXCEPT ![f] =
                      [phase |-> "calendar", now |-> hour, asked |-> calendar,
                       section |-> NoSection]]
    /\ UNCHANGED <<hour, calendar, weather, calendarCache, previousForecast,
                   shown, forecastAnswered>>

(* The calendar answered, or did not: the section is built for the one     *)
(* configured by now, and the weather entity asked. An owner without a     *)
(* calendar is not asked and counts as answered.                           *)
CalendarFetched(f) ==
    /\ fetches[f].phase = "calendar"
    /\ \E answers \in IF fetches[f].asked = NoEntity THEN {TRUE} ELSE BOOLEAN :
          LET now == fetches[f].now
              answered == IF answers THEN Answer(fetches[f].asked, now) ELSE NoAnswer
          IN  /\ calendarCache' = IF answers /\ calendar # NoEntity THEN answered
                                  ELSE calendarCache
              /\ fetches' = [fetches EXCEPT ![f] =
                                [phase |-> "weather", now |-> now, asked |-> weather,
                                 section |-> CalendarSection(now, answered)]]
    /\ UNCHANGED <<hour, calendar, weather, previousForecast, shown, forecastAnswered>>

(* The weather entity answered, or did not; the frame is rendered.         *)
ForecastFetched(f) ==
    /\ fetches[f].phase = "weather"
    /\ \E reply \in {"failed", "empty", "hourly"} :
          LET now == fetches[f].now
              forecast == NormalizeForecast(fetches[f].asked, now, reply)
          IN  /\ previousForecast' = forecast
              /\ shown' = [now |-> now, calendar |-> fetches[f].section,
                           forecast |-> forecast]
              /\ forecastAnswered' = IF forecast.status = "ok" THEN now
                                     ELSE forecastAnswered
    /\ fetches' = [fetches EXCEPT ![f] = NoFetch]
    /\ UNCHANGED <<hour, calendar, weather, calendarCache>>

(* Something else raises; what was cached so far stays.                    *)
FetchFails(f) ==
    /\ fetches[f].phase # "idle"
    /\ fetches' = [fetches EXCEPT ![f] = NoFetch]
    /\ UNCHANGED <<hour, calendar, weather, calendarCache, previousForecast,
                   shown, forecastAnswered>>

(* Mutant of Rebind: the caches of the entity before are kept.             *)
RebindKeepingCaches(cal, wea) ==
    /\ calendar' = cal
    /\ weather' = wea
    /\ UNCHANGED <<calendarCache, previousForecast>>

(* async_reconfigure: what was collected from another entity is dropped.   *)
Rebind(cal, wea) ==
    /\ calendar' = cal
    /\ weather' = wea
    /\ calendarCache' = IF cal = calendar THEN calendarCache ELSE NoAnswer
    /\ previousForecast' = IF wea = weather THEN previousForecast ELSE NoSection

Rebound ==
    /\ \A f \in Fetchers : fetches[f].phase = "idle" \/ MidRefresh
    /\ \/ \E cal \in Calendars \cup {NoEntity} : Rebind(cal, weather)
       \/ \E wea \in Weathers \cup {NoEntity} : Rebind(calendar, wea)
    /\ UNCHANGED <<hour, fetches, shown, forecastAnswered>>

HourPasses ==
    /\ hour < LastHour
    /\ \A f \in Fetchers : fetches[f].phase = "idle"
    /\ hour' = hour + 1
    /\ forecastAnswered' = IF hour' - forecastAnswered < KeptFor
                           THEN forecastAnswered ELSE Never
    /\ shown' = NoFrame
    /\ UNCHANGED <<calendar, weather, calendarCache, previousForecast, fetches>>

SectionsNext ==
    \/ \E f \in Fetchers : FetchCalendar(f)
    \/ \E f \in Fetchers : CalendarFetched(f)
    \/ \E f \in Fetchers : ForecastFetched(f)
    \/ \E f \in Fetchers : FetchFails(f)
    \/ Rebound
    \/ HourPasses

SectionsSpec == SectionsInit /\ [][SectionsNext]_sectionVars

-----------------------------------------------------------------------------
ShowsEvents(s) == s.of # NoEntity
ShowsValues(s) == s.slots # {}

(* Whatever fails again and again, a frame shows nothing collected six or  *)
(* more hours before, and no events collected on another day (data-model.md*)
(* 取得鮮度). The caches are fed by each other's results, so that an age    *)
(* lost on the way would keep old values for ever.                         *)
ShownIsRecent ==
    /\ ShowsEvents(shown.calendar) =>
          /\ shown.now - shown.calendar.from < KeptFor
          /\ DayOf(shown.now) = DayOf(shown.calendar.from)
    /\ ShowsValues(shown.forecast) => shown.now - shown.forecast.from < KeptFor

(* _oldest_collected of the renderer, the time in the header. *)
HeaderTime ==
    Min({shown.now} \cup ({shown.calendar.at, shown.forecast.at} \ {Never}))

(* Nothing on the frame is older than its header says.                     *)
HeaderCoversAll ==
    /\ ShowsEvents(shown.calendar) => HeaderTime <= shown.calendar.from
    /\ ShowsValues(shown.forecast) => HeaderTime <= shown.forecast.from

(* A frame shows nothing too old, and nothing older than it says.          *)
AgeIsTold == ShownIsRecent /\ HeaderCoversAll

(* A frame rendered after a reconfiguration shows nothing of the entities  *)
(* before it, from no cache.                                               *)
ShownIsOfConfig ==
    [][shown' # shown =>
        /\ ShowsEvents(shown'.calendar) => shown'.calendar.of = calendar
        /\ ShowsValues(shown'.forecast) => shown'.forecast.of = weather]_sectionVars

(* A forecast is called stale only while an answer less than six hours old *)
(* stands behind it; otherwise it is unavailable (forecast.md 欠損と鮮度).  *)
StaleHasAnswer ==
    shown.forecast.status = "stale" => forecastAnswered # Never
=============================================================================
