------------------------------- MODULE OrgChart -------------------------------
(***************************************************************************)
(* agentos/agents/hierarchy.py and identities.py: the agents the system    *)
(* starts with. Of a definition the model keeps the place in the chart,    *)
(* the model tier, the risk level and the permissions; of an identity the  *)
(* archetype, the risk tolerance and the autonomy level. Names, prose,     *)
(* skills and lists of tools, which prompts show, are left out.            *)
(***************************************************************************)
EXTENDS Naturals, TLC

NoParent == "none"

\* What _agent allows everyone, and what an agent has only if its definition
\* says so.
DefaultAllowed ==
  {"filesystem.read", "filesystem.write", "web.search", "mattermost.post",
   "memory.recall", "memory.save", "project.state"}

DefaultDenied ==
  {"shell", "web.scrape", "api.call", "mcp.call", "deploy", "github", "postgres.query",
   "docker", "agent.delegate", "browser.open", "browser.snapshot", "browser.click",
   "browser.type", "browser.screenshot", "browser.evaluate", "browser.close"}

\* The definition of an agent, its children, and what it is granted beyond
\* the defaults.
Lead(parent, children, tier, risk, granted) ==
  [parent |-> parent, children |-> children, tier |-> tier, risk |-> risk,
   allowed |-> DefaultAllowed \cup granted]

Def(parent, tier, risk, granted) == Lead(parent, {}, tier, risk, granted)

Id(archetype, tolerance, autonomy) ==
  [archetype |-> archetype, tolerance |-> tolerance, autonomy |-> autonomy]

Browsing == {"browser.open", "browser.snapshot", "browser.close"}

Interactive == Browsing \cup {"browser.click", "browser.type", "browser.screenshot"}

-----------------------------------------------------------------------------
ExecutiveChart ==
     "executive" :> Lead(NoParent,
         {"chief-of-staff", "product-director", "cto", "design-director",
          "research-director", "marketing-director", "sales-director",
          "qa-director", "operations-director"},
         "t3", "medium", {"agent.delegate", "api.call", "shell"})
  @@ "chief-of-staff" :> Def("executive", "t2", "low", {})

ExecutiveIdentities ==
     "executive" :> Id("executive", "high", 5) @@ "chief-of-staff" :> Id("executive", "low", 4)

ProductChart ==
     "product-director" :> Lead("executive",
         {"product-manager", "requirements-analyst",
          "product-researcher"},
         "t3", "medium", {})
  @@ "product-manager" :> Def("product-director", "t2", "low", {})
  @@ "requirements-analyst" :> Def("product-director", "t2", "low", {})
  @@ "product-researcher" :> Def("product-director", "t2", "low", {"web.scrape"})

ProductIdentities ==
     "product-director" :> Id("product", "moderate", 4) @@ "product-manager" :> Id("product", "low", 3)
  @@ "requirements-analyst" :> Id("product", "minimal", 1) @@ "product-researcher" :> Id("researcher", "low", 1)

EngineeringChart ==
     "cto" :> Lead("executive",
         {"software-architect", "frontend-lead", "backend-lead",
          "database-engineer", "devops-engineer", "ai-engineer"},
         "t3", "medium", {})
  @@ "software-architect" :> Def("cto", "t2", "low", {"mcp.call"})
  @@ "frontend-lead" :> Def("cto", "t2", "low", Interactive \cup {"mcp.call", "shell"})
  @@ "backend-lead" :> Def("cto", "t2", "low", {"mcp.call", "shell"})
  @@ "database-engineer" :> Def("cto", "t2", "low", {"mcp.call", "postgres.query"})
  @@ "devops-engineer" :> Def("cto", "t2", "high", {"deploy", "docker", "github", "shell"})
  @@ "ai-engineer" :> Def("cto", "t2", "low", {"mcp.call"})

EngineeringIdentities ==
     "cto" :> Id("architect", "moderate", 4) @@ "software-architect" :> Id("architect", "low", 2)
  @@ "frontend-lead" :> Id("engineer", "moderate", 3) @@ "backend-lead" :> Id("engineer", "moderate", 3)
  @@ "database-engineer" :> Id("engineer", "low", 2) @@ "devops-engineer" :> Id("operations", "minimal", 2)
  @@ "ai-engineer" :> Id("engineer", "moderate", 2)

DesignChart ==
     "design-director" :> Lead("executive",
         {"ux-designer", "ui-designer", "motion-engineer"},
         "t3", "medium", {})
  @@ "ux-designer" :> Def("design-director", "t2", "low", {"mcp.call"})
  @@ "ui-designer" :> Def("design-director", "t2", "low", Browsing \cup {"mcp.call"})
  @@ "motion-engineer" :> Def("design-director", "t2", "low", {"shell"})

DesignIdentities ==
     "design-director" :> Id("designer", "moderate", 4) @@ "ux-designer" :> Id("designer", "low", 2)
  @@ "ui-designer" :> Id("designer", "low", 2) @@ "motion-engineer" :> Id("designer", "low", 2)

ResearchChart ==
     "research-director" :> Lead("executive",
         {"market-researcher", "community-researcher",
          "competitor-analyst", "technical-researcher"},
         "t3", "medium", {})
  @@ "market-researcher" :> Def("research-director", "t2", "low", {"web.scrape"})
  @@ "community-researcher" :> Def("research-director", "t2", "low", Browsing \cup {"api.call", "web.scrape"})
  @@ "competitor-analyst" :> Def("research-director", "t2", "low", {})
  @@ "technical-researcher" :> Def("research-director", "t2", "low", Browsing \cup {"web.scrape"})

ResearchIdentities ==
     "research-director" :> Id("researcher", "low", 4) @@ "market-researcher" :> Id("researcher", "low", 1)
  @@ "community-researcher" :> Id("researcher", "low", 1) @@ "competitor-analyst" :> Id("researcher", "low", 1)
  @@ "technical-researcher" :> Id("researcher", "low", 1)

MarketingChart ==
     "marketing-director" :> Lead("executive",
         {"seo-agent", "content-agent", "social-agent", "growth-agent"},
         "t3", "medium", {})
  @@ "seo-agent" :> Def("marketing-director", "t2", "low", {})
  @@ "content-agent" :> Def("marketing-director", "t2", "low", {})
  @@ "social-agent" :> Def("marketing-director", "t2", "low", {})
  @@ "growth-agent" :> Def("marketing-director", "t2", "low", {})

MarketingIdentities ==
     "marketing-director" :> Id("marketing", "high", 4) @@ "seo-agent" :> Id("marketing", "low", 1)
  @@ "content-agent" :> Id("marketing", "low", 1) @@ "social-agent" :> Id("marketing", "moderate", 1)
  @@ "growth-agent" :> Id("marketing", "high", 2)

SalesChart ==
     "sales-director" :> Lead("executive",
         {"lead-researcher", "sales-analyst", "outreach-specialist"},
         "t2", "medium", {})
  @@ "lead-researcher" :> Def("sales-director", "t2", "low", {"web.scrape"})
  @@ "sales-analyst" :> Def("sales-director", "t2", "low", {})
  @@ "outreach-specialist" :> Def("sales-director", "t2", "medium", {})

SalesIdentities ==
     "sales-director" :> Id("sales", "moderate", 3) @@ "lead-researcher" :> Id("sales", "low", 1)
  @@ "sales-analyst" :> Id("sales", "low", 1) @@ "outreach-specialist" :> Id("sales", "moderate", 1)

QualityChart ==
     "qa-director" :> Lead("executive",
         {"test-engineer", "code-reviewer", "security-reviewer",
          "performance-reviewer"},
         "t2", "medium", {})
  @@ "test-engineer" :> Def("qa-director", "t2", "low", Interactive \cup {"shell"})
  @@ "code-reviewer" :> Def("qa-director", "t2", "low", {})
  @@ "security-reviewer" :> Def("qa-director", "t2", "high", {})
  @@ "performance-reviewer" :> Def("qa-director", "t2", "low", {})

QualityIdentities ==
     "qa-director" :> Id("qa", "minimal", 3) @@ "test-engineer" :> Id("qa", "low", 2)
  @@ "code-reviewer" :> Id("qa", "low", 2) @@ "security-reviewer" :> Id("security", "minimal", 2)
  @@ "performance-reviewer" :> Id("qa", "low", 1)

OperationsChart ==
     "operations-director" :> Lead("executive",
         {"project-manager", "documentation-agent", "deployment-agent",
          "monitoring-agent"},
         "t2", "medium", {})
  @@ "project-manager" :> Def("operations-director", "t2", "low", {})
  @@ "documentation-agent" :> Def("operations-director", "t2", "low", {})
  @@ "deployment-agent" :> Def("operations-director", "t2", "high", {"deploy", "github", "shell"})
  @@ "monitoring-agent" :> Def("operations-director", "t2", "medium", {"docker", "shell"})

OperationsIdentities ==
     "operations-director" :> Id("operations", "minimal", 3) @@ "project-manager" :> Id("operations", "low", 3)
  @@ "documentation-agent" :> Id("operations", "low", 1) @@ "deployment-agent" :> Id("operations", "minimal", 1)
  @@ "monitoring-agent" :> Id("operations", "low", 2)
-----------------------------------------------------------------------------
Chart ==
  ExecutiveChart @@ ProductChart @@ EngineeringChart @@ DesignChart @@ ResearchChart @@
  MarketingChart @@ SalesChart @@ QualityChart @@ OperationsChart

Identity ==
  ExecutiveIdentities @@ ProductIdentities @@ EngineeringIdentities @@ DesignIdentities @@
  ResearchIdentities @@ MarketingIdentities @@ SalesIdentities @@ QualityIdentities @@ OperationsIdentities

Staff == DOMAIN Chart

\* Every definition writes down its parent and its children, and nothing but
\* care keeps the two in step. No agent is called like an answer.
ASSUME ChartAssumption ==
  /\ \A a, b \in Staff : b \in Chart[a].children <=> Chart[b].parent = a
  /\ Staff \cap {"denied", "refused"} = {}

\* AgentDef.allows, and the executor's default for what an agent's own
\* permissions do not mention.
Allows(agent, permission) == permission \in Chart[agent].allowed

=============================================================================
